---- MODULE Spec2Model ----
(***************************************************************************)
(* pokemmo-rs: the derived Message field codec (macros/src/lib.rs), the    *)
(* opcode-tagged codec unions (macros/src/lib.rs, src/codec/login.rs,      *)
(* src/message.rs) and the length-prefixed framing (src/context.rs,        *)
(* src/packet.rs, src/message.rs).                                         *)
(***************************************************************************)
EXTENDS Integers, Sequences, FiniteSets, TLC

(***************************************************************************)
(* Byte strings (Vec<u8>, &[u8]).  A byte string is kept in run-length     *)
(* form, a sequence of runs <<count, byte>> with count > 0 and adjacent    *)
(* runs of different bytes, so that a 10 MiB blob is one run.  Every byte  *)
(* string has exactly one such form: equality of forms is equality of the  *)
(* byte strings.                                                           *)
(***************************************************************************)
Run(n, b) == IF n <= 0 THEN <<>> ELSE << <<n, b>> >>

RECURSIVE BLen(_)
BLen(s) == IF s = <<>> THEN 0 ELSE s[1][1] + BLen(Tail(s))

\* the runs of s followed by the runs of t, joined where they meet
JoinRuns(s, t) ==
    IF s = <<>> THEN t
    ELSE IF t = <<>> THEN s
    ELSE IF s[Len(s)][2] = t[1][2]
         THEN SubSeq(s, 1, Len(s) - 1)
              \o << <<s[Len(s)][1] + t[1][1], t[1][2]>> >>
              \o Tail(t)
         ELSE s \o t

\* s followed by t.  (x \in {e} names the value of e: an operator's
\* argument is an expression, evaluated again wherever the operator's body
\* mentions it.)
BCat(s, t) == CHOOSE out \in { JoinRuns(x, y) : x \in {s}, y \in {t} } : TRUE

RECURSIVE BTake(_, _)
BTake(s, n) ==
    IF n <= 0 \/ s = <<>> THEN <<>>
    ELSE IF s[1][1] <= n THEN <<s[1]>> \o BTake(Tail(s), n - s[1][1])
    ELSE << <<n, s[1][2]>> >>

RECURSIVE BDrop(_, _)
BDrop(s, n) ==
    IF n <= 0 \/ s = <<>> THEN s
    ELSE IF s[1][1] <= n THEN BDrop(Tail(s), n - s[1][1])
    ELSE << <<s[1][1] - n, s[1][2]>> >> \o Tail(s)

\* data[from..from+n]
BSlice(s, from, n) == BTake(BDrop(s, from), n)

\* a byte string from its bytes written out
RECURSIVE Bytes(_)
Bytes(q) ==
    CHOOSE out \in { IF x = <<>> THEN <<>> ELSE BCat(Run(1, x[1]), Bytes(Tail(x))) :
                     x \in {q} } : TRUE

\* the bytes of a (short) byte string written out
RECURSIVE Plain(_)
Plain(s) ==
    CHOOSE out \in
        { IF x = <<>> THEN <<>>
          ELSE <<x[1][2]>> \o Plain(IF x[1][1] = 1 THEN Tail(x)
                                    ELSE << <<x[1][1] - 1, x[1][2]>> >> \o Tail(x)) :
          x \in {s} } : TRUE

(***************************************************************************)
(* Integer types.  [w |-> bytes, s |-> signed].                            *)
(***************************************************************************)
I8  == [w |-> 1, s |-> TRUE]
U8  == [w |-> 1, s |-> FALSE]
I16 == [w |-> 2, s |-> TRUE]
U16 == [w |-> 2, s |-> FALSE]
I32 == [w |-> 4, s |-> TRUE]
U32 == [w |-> 4, s |-> FALSE]
I64 == [w |-> 8, s |-> TRUE]
U64 == [w |-> 8, s |-> FALSE]

\* T::to_le_bytes: w bytes, least significant first, two's complement
\* (\div rounds down and % is never negative, so -1 gives FF FF ..).
RECURSIVE to_le_bytes(_, _)
to_le_bytes(v, w) ==
    IF w = 0 THEN <<>> ELSE <<v % 256>> \o to_le_bytes(v \div 256, w - 1)

\* T::from_le_bytes: the most significant byte carries the sign of a signed type.
RECURSIVE from_le_bytes(_, _)
from_le_bytes(q, signed) ==
    IF Len(q) = 1
    THEN (IF signed /\ q[1] >= 128 THEN q[1] - 256 ELSE q[1])
    ELSE q[1] + 256 * from_le_bytes(Tail(q), signed)

\* usize::try_into::<T>() of a length n >= 0: Ok iff n <= T::MAX.  The lengths
\* of the model are below 2^31, so they fit every type of 4 bytes or more.
try_into_len(n, ty) ==
    CASE ty.w = 1 /\ ty.s      -> n <= 127
      [] ty.w = 1 /\ ~ty.s     -> n <= 255
      [] ty.w = 2 /\ ty.s      -> n <= 32767
      [] ty.w = 2 /\ ~ty.s     -> n <= 65535
      [] OTHER                 -> TRUE

(***************************************************************************)
(* usize.  `x as usize` of a signed x sign-extends: a negative x becomes   *)
(* 2^64 + x.  A usize is kept as the signed integer with the same 64 bits  *)
(* (so 2^64 - 1 is kept as -1) and compared as unsigned.                   *)
(***************************************************************************)
UGt(a, b) == IF (a < 0) = (b < 0) THEN a > b ELSE a < 0
ULt(a, b) == UGt(b, a)

Ok(v)  == [tag |-> "Ok", val |-> v]
Err(kind, msg) == [tag |-> "Err", kind |-> kind, msg |-> msg]
Panic(msg) == [tag |-> "Panic", msg |-> msg]

(***************************************************************************)
(* #[derive(Message)] (macros/src/lib.rs, pokemmo-macros/src/lib.rs).      *)
(* A struct is its sequence of fields, [name, kind, ty]: kind "int" is a   *)
(* fixed-width integer of type ty, kind "prefixed" a Vec<u8> with          *)
(* #[prefixed(ty)].  A struct value is the sequence of its field values.   *)
(***************************************************************************)
Int_(name, ty)     == [name |-> name, kind |-> "int", ty |-> ty]
Prefixed(name, ty) == [name |-> name, kind |-> "prefixed", ty |-> ty]

MAX_PREFIXED_SIZE == 10485760

\* the statement generated for a #[prefixed(ty)] field, appending to `data`
serialize_prefixed(f, x, data) ==
    IF ~try_into_len(BLen(x), f.ty)
    THEN Err("InvalidData", "out of range integral type conversion attempted")
    ELSE Ok(BCat(BCat(data, Bytes(to_le_bytes(BLen(x), f.ty.w))), x))

\* mutant of serialize_primitive: the bytes most significant first
serialize_primitive_be(f, x, data) ==
    Ok(BCat(data, Bytes([k \in 1..f.ty.w |->
                            to_le_bytes(x, f.ty.w)[f.ty.w + 1 - k]])))

\* the statement generated for an integer field
serialize_primitive(f, x, data) ==
    Ok(BCat(data, Bytes(to_le_bytes(x, f.ty.w))))

RECURSIVE serialize_fields(_, _, _, _)
serialize_fields(schema, v, i, data) ==
    IF i > Len(schema) THEN Ok(data)
    ELSE CHOOSE out \in
             { IF r.tag = "Ok" THEN serialize_fields(schema, v, i + 1, r.val) ELSE r :
               r \in { IF schema[i].kind = "prefixed"
                       THEN serialize_prefixed(schema[i], v[i], data)
                       ELSE serialize_primitive(schema[i], v[i], data) } } : TRUE

\* Message::serialize(&self)
serialize(schema, v) == serialize_fields(schema, v, 1, <<>>)

\* What a field's statement leaves: the field's value, the cursor position and
\* the bytes of blob buffers allocated so far, or the error it returned with.
FieldOk(x, pos, alloc) == [tag |-> "Ok", val |-> x, pos |-> pos, alloc |-> alloc]
FieldErr(kind, msg, f, pos, alloc) ==
    [tag |-> "Err", kind |-> kind, msg |-> msg, field |-> f.name,
     pos |-> pos, alloc |-> alloc]

\* mutants of size_exceeds: the ceiling itself refused; a signed comparison
size_exceeds_at_ceiling(size_value) == ~UGt(MAX_PREFIXED_SIZE, size_value)
size_exceeds_signed(size_value) == size_value > MAX_PREFIXED_SIZE

\* `size_value > MAX_SIZE`, both usize
size_exceeds(size_value) == UGt(size_value, MAX_PREFIXED_SIZE)

\* The generated deserialize opens `rdr`, a Cursor over the parameter `data`,
\* and binds each field to a local named after the field.  A blob field named
\* `data` shadows the parameter: the bounds checks of the fields after it read
\* `data.len()` of that blob, while `rdr` still reads the input.  In the
\* operators below `rdr` is the input and `len` is what `data.len()` returns
\* where the field's statements stand.

\* the statements generated for a #[prefixed(ty)] field, the cursor at pos
deserialize_prefixed(f, rdr, len, pos, alloc) ==
    IF pos + f.ty.w > len
    THEN FieldErr("InvalidData", "Insufficient data for size", f, pos, alloc)
    ELSE CHOOSE out \in
             { IF size_exceeds(size_value)
               THEN FieldErr("InvalidData", "size exceeds maximum allowed", f,
                             pos + f.ty.w, alloc)
               ELSE IF BLen(rdr) - (pos + f.ty.w) < size_value
               THEN FieldErr("UnexpectedEof", "failed to fill whole buffer", f,
                             BLen(rdr), alloc + size_value)
               ELSE FieldOk(BSlice(rdr, pos + f.ty.w, size_value),
                            pos + f.ty.w + size_value, alloc + size_value) :
               size_value \in { from_le_bytes(Plain(BSlice(rdr, pos, f.ty.w)),
                                              f.ty.s) } } : TRUE

\* mutant of deserialize_primitive: the bounds check off by one (the last
\* byte of the field may be missing)
deserialize_primitive_short(f, rdr, len, pos, alloc) ==
    IF pos + f.ty.w > len + 1
    THEN FieldErr("InvalidData", "Insufficient data", f, pos, alloc)
    ELSE FieldOk(from_le_bytes(Plain(BCat(BSlice(rdr, pos, f.ty.w),
                                          Run(pos + f.ty.w - BLen(rdr), 0))), f.ty.s),
                 pos + f.ty.w, alloc)

\* the statements generated for an integer field
deserialize_primitive(f, rdr, len, pos, alloc) ==
    IF pos + f.ty.w > len
    THEN FieldErr("InvalidData", "Insufficient data", f, pos, alloc)
    ELSE FieldOk(from_le_bytes(Plain(BSlice(rdr, pos, f.ty.w)), f.ty.s),
                 pos + f.ty.w, alloc)

\* what `data.len()` returns after the statements of field f have bound x:
\* `let mut data = vec![0u8; size]` for a blob field named data
data_len_after(f, x, len) ==
    IF f.kind = "prefixed" /\ f.name = "data" THEN BLen(x) ELSE len

RECURSIVE deserialize_fields(_, _, _, _, _, _, _)
deserialize_fields(schema, rdr, len, i, fields, pos, alloc) ==
    IF i > Len(schema) THEN FieldOk(fields, pos, alloc)
    ELSE CHOOSE out \in
             { IF r.tag = "Ok"
               THEN deserialize_fields(schema, rdr,
                                       data_len_after(schema[i], r.val, len),
                                       i + 1, Append(fields, r.val), r.pos, r.alloc)
               ELSE r :
               r \in { IF schema[i].kind = "prefixed"
                       THEN deserialize_prefixed(schema[i], rdr, len, pos, alloc)
                       ELSE deserialize_primitive(schema[i], rdr, len, pos, alloc) } } : TRUE

\* Message::deserialize(data)
deserialize(schema, data) ==
    CHOOSE out \in { deserialize_fields(schema, d, BLen(d), 1, <<>>, 0, 0) :
                     d \in {data} } : TRUE

(***************************************************************************)
(* The structs the derive is applied to, and the values drawn for them.    *)
(***************************************************************************)
\* src/message/client_hello.rs
ClientHelloFields == << Int_("obfuscated_integrity", I64),
                        Int_("obfuscated_timestamp", I64) >>
\* tests/message_macro_demo.rs
ServerHelloFields == << Prefixed("public_key", I16), Prefixed("signature", I16),
                        Int_("checksum_size", I8) >>
ClientReadyFields == << Prefixed("public_key", I16) >>
\* pokemmo-macros/tests/macro_tests.rs
SimpleMessageFields  == << Int_("field1", U32), Int_("field2", I64) >>
MessageWithVecFields == << Int_("value", I32), Prefixed("data", I16) >>
ComplexMessageFields == << Int_("a", I64), Int_("b", I64), Prefixed("vec1", I16),
                           Prefixed("vec2", I16), Int_("c", I8) >>
\* struct { #[prefixed(ty)] blob: Vec<u8>, tail: u8 }, one per prefix type
BlobFields(ty) == << Prefixed("blob", ty), Int_("tail", U8) >>
\* struct { #[prefixed(i8)] data: Vec<u8>, tail: u8 }: the blob is bound to a
\* local named `data` before the statements of `tail` run
DataTailFields == << Prefixed("data", I8), Int_("tail", U8) >>

PrefixTypeNames == {"i8", "u8", "i16", "u16", "i32", "u32", "i64", "u64"}
TypeNamed(n) ==
    CASE n = "i8" -> I8 [] n = "u8" -> U8 [] n = "i16" -> I16 [] n = "u16" -> U16
      [] n = "i32" -> I32 [] n = "u32" -> U32 [] n = "i64" -> I64 [] n = "u64" -> U64

StructNames == {"ClientHello", "ServerHello", "ClientReady", "SimpleMessage",
                "MessageWithVec", "ComplexMessage", "DataTail"} \cup PrefixTypeNames

\* the fields of the struct named n (a prefix type's name: the blob struct)
Fields(n) ==
    CASE n = "ClientHello"    -> ClientHelloFields
      [] n = "ServerHello"    -> ServerHelloFields
      [] n = "ClientReady"    -> ClientReadyFields
      [] n = "SimpleMessage"  -> SimpleMessageFields
      [] n = "MessageWithVec" -> MessageWithVecFields
      [] n = "ComplexMessage" -> ComplexMessageFields
      [] n = "DataTail"       -> DataTailFields
      [] OTHER                -> BlobFields(TypeNamed(n))

\* longest blob whose bytes are written out one by one
MaxLitLen == 2
\* how many bytes from either end of an encoding a truncation may keep or cut
MaxCut == 12

ByteSamples == {0, 255}

RECURSIVE SeqsUpTo(_, _)
SeqsUpTo(S, n) ==
    IF n = 0 THEN {<<>>}
    ELSE LET shorter == SeqsUpTo(S, n - 1)
         IN  shorter \cup {Append(q, b) : q \in {x \in shorter : Len(x) = n - 1}, b \in S}

LitBlobs == {Bytes(q) : q \in SeqsUpTo(ByteSamples, MaxLitLen)}

\* blob lengths at the edges of the prefix types, of the 10 MiB ceiling and
\* of the frame length
EdgeLens == {127, 128, 255, 256, 32762, 32763, 32764, 32765, 32767, 32768,
             65535, 65536, MAX_PREFIXED_SIZE, MAX_PREFIXED_SIZE + 1}
EdgeBlobs == {Run(n, 171) : n \in EdgeLens}

I16EdgeBlobs == {Run(n, 171) : n \in {32762, 32763, 32767, 32768}}

\* the values of the model stay within 32 bits, whatever the type's width
in_type(v, ty) ==
    CASE ty.w = 1 -> IF ty.s THEN v \in -128..127 ELSE v \in 0..255
      [] ty.w = 2 -> IF ty.s THEN v >= -32768 /\ v <= 32767 ELSE v >= 0 /\ v <= 65535
      [] OTHER    -> ty.s \/ v >= 0

IntSamples(ty) ==
    {v \in {-2147483647 - 1, -32768, -128, -100, -1, 0, 42, 127, 255, 12345,
            32767, 65535, 2147483647} : in_type(v, ty)}

FieldSamples(f, many) ==
    IF f.kind = "int"
    THEN (IF many THEN {v \in IntSamples(f.ty) : v \in {-100, 42}}
          ELSE IntSamples(f.ty))
    ELSE (IF many THEN LitBlobs \cup I16EdgeBlobs ELSE LitBlobs \cup EdgeBlobs)

\* every struct value with each field drawn from its samples (fewer samples
\* per field for the structs of three fields or more)
RECURSIVE ValuesFrom(_, _, _)
ValuesFrom(schema, i, many) ==
    IF i > Len(schema) THEN {<<>>}
    ELSE {<<x>> \o rest : x \in FieldSamples(schema[i], many),
                          rest \in ValuesFrom(schema, i + 1, many)}
StructValues(schema) == ValuesFrom(schema, 1, Len(schema) >= 3)

(***************************************************************************)
(* Codec unions.  A message is [variant, body] for a known variant (body:  *)
(* the struct value) or [variant |-> "Unknown", opcode, data].             *)
(***************************************************************************)
Known(name, body) == [variant |-> name, body |-> body]
Unknown(opcode, data) == [variant |-> "Unknown", opcode |-> opcode, data |-> data]

\* src/codec/login.rs: the variants of Login and their opcodes
LoginVariants ==
    << [name |-> "ClientHello", opcode |-> 0, fields |-> ClientHelloFields],
       [name |-> "ServerHello", opcode |-> 1, fields |-> ServerHelloFields],
       [name |-> "ClientReady", opcode |-> 2, fields |-> ClientReadyFields] >>

\* The enums #[codec] is applied to: Login as it is, and Login declaring
\* Unknown { opcode: i8, data } or Unknown { opcode: u8, data }.
CodecUnions == {"Login", "LoginUnknownI8", "LoginUnknownU8"}
Union(u) == [variants |-> LoginVariants,
             has_unknown |-> u # "Login",
             unknown_is_i8 |-> u = "LoginUnknownI8"]

VariantNamed(un, name) ==
    un.variants[CHOOSE i \in 1..Len(un.variants) : un.variants[i].name = name]
\* the match arms of decode, in order: the first arm whose literal is the byte
ArmsFor(un, byte) == {i \in 1..Len(un.variants) : un.variants[i].opcode % 256 = byte}
FirstArm(un, byte) ==
    CHOOSE i \in ArmsFor(un, byte) : \A j \in ArmsFor(un, byte) : i <= j

\* mutant of encode: the opcode byte follows the body
encode_opcode_last(un, m) ==
    IF m.variant = "Unknown"
    THEN Ok(BCat(Run(1, IF un.unknown_is_i8 THEN to_le_bytes(m.opcode, 1)[1]
                        ELSE m.opcode),
                 m.data))
    ELSE LET r == serialize(VariantNamed(un, m.variant).fields, m.body)
         IN  IF r.tag = "Ok"
             THEN Ok(BCat(r.val, Run(1, VariantNamed(un, m.variant).opcode % 256)))
             ELSE r

\* Codec::encode(&self)
encode(un, m) ==
    IF m.variant = "Unknown"
    THEN Ok(BCat(Run(1, IF un.unknown_is_i8 THEN to_le_bytes(m.opcode, 1)[1]
                        ELSE m.opcode),
                 m.data))
    ELSE CHOOSE out \in
             { IF r.tag = "Ok"
               THEN Ok(BCat(Run(1, VariantNamed(un, m.variant).opcode % 256), r.val))
               ELSE r :
               r \in { serialize(VariantNamed(un, m.variant).fields, m.body) } } : TRUE

\* mutants of decode: the catch-all keeps the opcode byte in data; an opcode
\* no arm matches is read as the last variant
decode_keeps_opcode(un, data) ==
    IF data = <<>> THEN Err("InvalidData", "No opcode found in message")
    ELSE IF ArmsFor(un, data[1][2]) # {}
    THEN LET r == deserialize(un.variants[FirstArm(un, data[1][2])].fields,
                              BDrop(data, 1))
         IN  IF r.tag = "Ok"
             THEN Ok(Known(un.variants[FirstArm(un, data[1][2])].name, r.val))
             ELSE r
    ELSE IF un.has_unknown
    THEN Ok(Unknown(IF un.unknown_is_i8 THEN from_le_bytes(<<data[1][2]>>, TRUE)
                    ELSE data[1][2],
                    data))
    ELSE Err("InvalidData", "Unknown message opcode")
decode_by_range(un, data) ==
    IF data = <<>> THEN Err("InvalidData", "No opcode found in message")
    ELSE LET arm == IF ArmsFor(un, data[1][2]) # {} THEN FirstArm(un, data[1][2])
                    ELSE Len(un.variants)
             r == deserialize(un.variants[arm].fields, BDrop(data, 1))
         IN  IF r.tag = "Ok" THEN Ok(Known(un.variants[arm].name, r.val)) ELSE r

\* mutant of decode: an empty input falls through to the default arm
decode_empty_as_unknown(un, data) ==
    IF data = <<>>
    THEN (IF un.has_unknown THEN Ok(Unknown(0, <<>>))
          ELSE Err("InvalidData", "Unknown message opcode"))
    ELSE IF ArmsFor(un, data[1][2]) # {}
    THEN LET r == deserialize(un.variants[FirstArm(un, data[1][2])].fields,
                              BDrop(data, 1))
         IN  IF r.tag = "Ok"
             THEN Ok(Known(un.variants[FirstArm(un, data[1][2])].name, r.val))
             ELSE r
    ELSE IF un.has_unknown
    THEN Ok(Unknown(IF un.unknown_is_i8 THEN from_le_bytes(<<data[1][2]>>, TRUE)
                    ELSE data[1][2],
                    BDrop(data, 1)))
    ELSE Err("InvalidData", "Unknown message opcode")

\* Codec::decode(data)
decode(un, data) ==
    IF data = <<>> THEN Err("InvalidData", "No opcode found in message")
    ELSE IF ArmsFor(un, data[1][2]) # {}
    THEN CHOOSE out \in
             { IF r.tag = "Ok"
               THEN Ok(Known(un.variants[FirstArm(un, data[1][2])].name, r.val))
               ELSE r :
               r \in { deserialize(un.variants[FirstArm(un, data[1][2])].fields,
                                   BDrop(data, 1)) } } : TRUE
    ELSE IF un.has_unknown
    THEN Ok(Unknown(IF un.unknown_is_i8 THEN from_le_bytes(<<data[1][2]>>, TRUE)
                    ELSE data[1][2],
                    BDrop(data, 1)))
    ELSE Err("InvalidData", "Unknown message opcode")

\* a value of the message type T (the struct a variant wraps)
Struct(T, fields) == [type |-> T, fields |-> fields]
MessageTypes == {LoginVariants[i].name : i \in 1..Len(LoginVariants)}

\* impl Into<Login> for T
into(m) == Known(m.type, m.fields)

\* Err(()) of the generated TryFrom
ErrUnit == [tag |-> "Err", kind |-> "()", msg |-> "()"]

\* mutant of try_from: the value's message whatever variant holds it
try_from_any(T, value) ==
    IF value.variant # "Unknown" THEN Ok(Struct(T, value.body)) ELSE ErrUnit

\* impl TryFrom<Login> for T
try_from(T, value) ==
    IF value.variant = T THEN Ok(Struct(T, value.body)) ELSE ErrUnit

(***************************************************************************)
(* src/message.rs: the hand-written enum Message and its conversions.      *)
(***************************************************************************)
\* `n as i16` of a usize: the low 16 bits, read as signed
as_i16(n) == ((n + 32768) % 65536) - 32768

\* vec![0u8; n] panics with "capacity overflow" when n exceeds isize::MAX:
\* the usizes kept as negative integers
capacity_overflow(n) == n < 0

\* impl Into<Vec<u8>> for Message
Message_into(m) ==
    CASE m.variant = "ClientHello" ->
            BCat(BCat(Bytes(to_le_bytes(0, 1)), Bytes(to_le_bytes(m.body[1], 8))),
                 Bytes(to_le_bytes(m.body[2], 8)))
      [] m.variant = "ServerHello" ->
            BCat(BCat(BCat(BCat(BCat(Bytes(to_le_bytes(1, 1)),
                 Bytes(to_le_bytes(as_i16(BLen(m.body[1])), 2))), m.body[1]),
                 Bytes(to_le_bytes(as_i16(BLen(m.body[2])), 2))), m.body[2]),
                 Run(1, m.body[3] % 256))
      [] m.variant = "ClientReady" ->
            BCat(BCat(Bytes(to_le_bytes(2, 1)),
                 Bytes(to_le_bytes(as_i16(BLen(m.body[1])), 2))), m.body[1])
      [] m.variant = "Unknown" ->
            BCat(Bytes(to_le_bytes(m.opcode, 1)), m.data)

\* Cursor::read_exact of n bytes at pos
Eof == Err("UnexpectedEof", "failed to fill whole buffer")
CanRead(data, pos, n) == pos + n <= BLen(data)

\* a blob behind an i16 length, read at pos as the arms of try_from read it:
\* the blob and the position after it, an error, or a panic
ReadSized(data, pos) ==
    IF ~CanRead(data, pos, 2) THEN Eof
    ELSE CHOOSE out \in
             { IF capacity_overflow(size) THEN Panic("capacity overflow")
               ELSE IF ~CanRead(data, pos + 2, size) THEN Eof
               ELSE [tag |-> "Ok", val |-> BSlice(data, pos + 2, size),
                     pos |-> pos + 2 + size] :
               size \in { from_le_bytes(Plain(BSlice(data, pos, 2)), TRUE) } } : TRUE

\* impl TryFrom<&[u8]> for Message
Message_try_from(data) ==
    IF ~CanRead(data, 0, 1) THEN Eof
    ELSE CHOOSE out \in {
    CASE opcode = 0 ->
            IF ~CanRead(data, 1, 8) \/ ~CanRead(data, 9, 8) THEN Eof
            ELSE Ok(Known("ClientHello",
                       << from_le_bytes(Plain(BSlice(data, 1, 8)), TRUE),
                          from_le_bytes(Plain(BSlice(data, 9, 8)), TRUE) >>))
      [] opcode = 1 ->
            CHOOSE hello \in {
                IF pk.tag # "Ok" THEN pk
                ELSE CHOOSE rest \in {
                    IF sig.tag # "Ok" THEN sig
                    ELSE IF ~CanRead(data, sig.pos, 1) THEN Eof
                    ELSE Ok(Known("ServerHello",
                               << pk.val, sig.val,
                                  from_le_bytes(Plain(BSlice(data, sig.pos, 1)), TRUE) >>)) :
                    sig \in { ReadSized(data, pk.pos) } } : TRUE :
                pk \in { ReadSized(data, 1) } } : TRUE
      [] opcode = 2 ->
            CHOOSE ready \in {
                IF pk.tag # "Ok" THEN pk
                ELSE Ok(Known("ClientReady", << pk.val >>)) :
                pk \in { ReadSized(data, 1) } } : TRUE
      [] OTHER -> Ok(Unknown(opcode, BDrop(data, 1))) :
    opcode \in { from_le_bytes(Plain(BSlice(data, 0, 1)), TRUE) } } : TRUE

(***************************************************************************)
(* src/message/client_ready.rs, src/message/server_hello.rs: the           *)
(* conversions of ClientReady and ServerHello into a packet Payload        *)
(* { opcode, data }.                                                       *)
(***************************************************************************)
PrefixedI16(x) ==
    IF ~try_into_len(BLen(x), I16)
    THEN Err("InvalidData", "out of range integral type conversion attempted")
    ELSE Ok(BCat(Bytes(to_le_bytes(BLen(x), 2)), x))

\* impl TryInto<crate::packet::Payload> for ClientReady
ClientReady_try_into(body) ==
    LET pk == PrefixedI16(body[1]) IN
    IF pk.tag # "Ok" THEN pk
    ELSE Ok([opcode |-> 2, data |-> pk.val])

\* impl TryInto<crate::packet::Payload> for ServerHello
ServerHello_try_into(body) ==
    LET pk == PrefixedI16(body[1])
        sig == PrefixedI16(body[2])
    IN  IF pk.tag # "Ok" THEN pk
        ELSE IF sig.tag # "Ok" THEN sig
        ELSE Ok([opcode |-> 1,
                 data |-> BCat(BCat(pk.val, sig.val), Run(1, body[3] % 256))])

\* impl TryFrom<crate::packet::Payload> for ClientReady; 2 + pk_size
\* overflows for the sizes -1 and -2 taken as usize
ClientReady_try_from(payload, checks) ==
    IF payload.opcode # 2
    THEN Err("InvalidData", "Invalid opcode for ClientReady message")
    ELSE IF BLen(payload.data) < 2
    THEN Err("InvalidData", "Insufficient data for ClientReady message")
    ELSE LET pk_size == from_le_bytes(Plain(BSlice(payload.data, 0, 2)), TRUE)
         IN  IF pk_size \in {-2, -1}
             THEN IF checks THEN Panic("attempt to add with overflow")
                  ELSE Panic("slice index starts at 2 but ends before it")
             ELSE IF pk_size < 0 \/ BLen(payload.data) < 2 + pk_size
             THEN Err("InvalidData",
                      "Insufficient data for public key in ClientReady message")
             ELSE Ok(Struct("ClientReady", << BSlice(payload.data, 2, pk_size) >>))

\* impl TryFrom<crate::packet::Payload> for ServerHello; the signature's
\* size is taken from size_buf, which still holds the public key's prefix
ServerHello_try_from(payload) ==
    IF payload.opcode # 1 THEN Err("InvalidData", "Invalid opcode for ServerHello")
    ELSE IF ~CanRead(payload.data, 0, 2) THEN Eof
    ELSE LET size == from_le_bytes(Plain(BSlice(payload.data, 0, 2)), TRUE)
             sig_size == size
         IN  IF capacity_overflow(size) THEN Panic("capacity overflow")
             ELSE IF ~CanRead(payload.data, 2, size) THEN Eof
             ELSE IF ~CanRead(payload.data, 2 + size, sig_size) THEN Eof
             ELSE IF ~CanRead(payload.data, 2 + size + sig_size, 1) THEN Eof
             ELSE Ok(Struct("ServerHello",
                            << BSlice(payload.data, 2, size),
                               BSlice(payload.data, 2 + size, sig_size),
                               from_le_bytes(Plain(BSlice(payload.data,
                                                          2 + size + sig_size, 1)),
                                             TRUE) >>))

(***************************************************************************)
(* State.                                                                  *)
(*   m_*: one derived struct: the value, what serialize returned, the      *)
(*        bytes handed to deserialize and what it returned.                *)
(***************************************************************************)
VARIABLES
    \* a struct with the derived Message implementation
    m_pc, m_struct, m_value, m_ser, m_in, m_craft, m_de,
    \* a codec union, or another encoder of the handshake messages
    c_pc, c_union, c_msg, c_enc, c_in, c_dec, c_target, c_conv,
    \* a framed stream
    f_pc, f_impl, f_checks, f_union, f_msg, f_target, f_stream, f_flushed,
    f_res, f_alloc, f_consumed,
    \* a ClientHello and the values it obfuscates
    h_pc, h_impl, h_integrity, h_time, h_primary, h_secondary, h_hello, h_bytes,
    h_back, h_out,
    \* a checksum-size selector
    k_pc, k_size, k_checksum, k_back,
    \* a payload value, serialized and read back
    p_pc, p_impl, p_type, p_value, p_ser, p_de, p_reser,
    \* a connection: the example client or a wire peer, and handle_client
    s_impl, s_checks, s_peer, s_vals, s_client, s_server, s_c2s, s_s2c, s_res, s_log,
    \* the call each peer is in: the bytes write_message has still to write, the
    \* bytes read_message has taken and the buffer it has allocated
    s_cout, s_cin, s_sout, s_sin,
    \* a stream several messages are written to and read back from
    t_impl, t_checks, t_todo, t_sent, t_stream, t_got, t_last, t_writer, t_reader,
    t_out, t_in,
    \* a packet of one payload type encoded, and an input decoded as that type
    q_pc, q_P, q_value, q_data, q_enc, q_dec

mvars == <<m_pc, m_struct, m_value, m_ser, m_in, m_craft, m_de>>
cvars == <<c_pc, c_union, c_msg, c_enc, c_in, c_dec, c_target, c_conv>>
fvars == <<f_pc, f_impl, f_checks, f_union, f_msg, f_target, f_stream, f_flushed,
           f_res, f_alloc, f_consumed>>
hvars == <<h_pc, h_impl, h_integrity, h_time, h_primary, h_secondary, h_hello,
           h_bytes, h_back, h_out>>
kvars == <<k_pc, k_size, k_checksum, k_back>>
pvars == <<p_pc, p_impl, p_type, p_value, p_ser, p_de, p_reser>>
svars == <<s_impl, s_checks, s_peer, s_vals, s_client, s_server, s_c2s, s_s2c, s_res, s_log,
           s_cout, s_cin, s_sout, s_sin>>
tvars == <<t_impl, t_checks, t_todo, t_sent, t_stream, t_got, t_last, t_writer, t_reader,
           t_out, t_in>>
qvars == <<q_pc, q_P, q_value, q_data, q_enc, q_dec>>
vars  == <<mvars, cvars, fvars, hvars, kvars, pvars, svars, tvars, qvars>>

\* what the actions of one part leave alone
not_mvars == <<cvars, fvars, hvars, kvars, pvars, svars, tvars, qvars>>
not_cvars == <<mvars, fvars, hvars, kvars, pvars, svars, tvars, qvars>>
not_fvars == <<mvars, cvars, hvars, kvars, pvars, svars, tvars, qvars>>
not_hvars == <<mvars, cvars, fvars, kvars, pvars, svars, tvars, qvars>>
not_kvars == <<mvars, cvars, fvars, hvars, pvars, svars, tvars, qvars>>
not_pvars == <<mvars, cvars, fvars, hvars, kvars, svars, tvars, qvars>>
not_svars == <<mvars, cvars, fvars, hvars, kvars, pvars, tvars, qvars>>
not_tvars == <<mvars, cvars, fvars, hvars, kvars, pvars, svars, qvars>>
not_qvars == <<mvars, cvars, fvars, hvars, kvars, pvars, svars, tvars>>

None == [tag |-> "None"]
\* no read_message call in progress: nothing taken, nothing allocated
NoRead == [taken |-> <<>>, alloc |-> <<>>]

\* the parts of the state a specification does not exercise
MIdle ==
    /\ m_pc = "idle" /\ m_struct = "ClientHello" /\ m_value = <<0, 0>>
    /\ m_ser = None /\ m_in = <<>> /\ m_craft = None /\ m_de = None
CIdle ==
    /\ c_pc = "idle" /\ c_union = "Login" /\ c_msg = None
    /\ c_enc = None /\ c_in = <<>> /\ c_dec = None
    /\ c_target = "none" /\ c_conv = None
FIdle ==
    /\ f_pc = "idle" /\ f_impl = "ContextedStream" /\ f_checks = FALSE
    /\ f_union = "Login" /\ f_msg = None /\ f_target = "ClientHello"
    /\ f_stream = <<>> /\ f_flushed = FALSE /\ f_res = None
    /\ f_alloc = <<>> /\ f_consumed = 0

HIdle ==
    /\ h_pc = "idle" /\ h_impl = "message" /\ h_integrity = <<0, 0, 0, 0>>
    /\ h_time = [before |-> FALSE, millis |-> <<0, 0, 0, 0>>]
    /\ h_primary = <<0, 0, 0, 0>> /\ h_secondary = <<0, 0, 0, 0>>
    /\ h_hello = None /\ h_bytes = None /\ h_back = None /\ h_out = None
KIdle ==
    /\ k_pc = "idle" /\ k_size = 0 /\ k_checksum = None /\ k_back = None
PIdle ==
    /\ p_pc = "idle" /\ p_impl = "payload" /\ p_type = "ClientReady"
    /\ p_value = None /\ p_ser = None /\ p_de = None /\ p_reser = None
SIdle ==
    /\ s_impl = "Message" /\ s_checks = FALSE /\ s_peer = "wire" /\ s_vals = None
    /\ s_client = "idle" /\ s_server = "idle" /\ s_c2s = <<>> /\ s_s2c = <<>>
    /\ s_res = None /\ s_log = <<>>
    /\ s_cout = <<>> /\ s_cin = NoRead /\ s_sout = <<>> /\ s_sin = NoRead
TIdle ==
    /\ t_impl = "ContextedStream" /\ t_checks = FALSE /\ t_todo = <<>> /\ t_sent = <<>>
    /\ t_stream = <<>> /\ t_got = <<>> /\ t_last = None
    /\ t_writer = "idle" /\ t_reader = "idle" /\ t_out = <<>> /\ t_in = NoRead
QIdle ==
    /\ q_pc = "idle" /\ q_P = "Unknown" /\ q_value = <<>> /\ q_data = <<>>
    /\ q_enc = None /\ q_dec = None

MInit ==
    /\ m_pc = "start"
    /\ m_struct \in StructNames
    /\ m_value \in StructValues(Fields(m_struct))
    /\ m_ser = None
    /\ m_in = <<>>
    /\ m_craft = None
    /\ m_de = None
    /\ CIdle /\ FIdle /\ HIdle /\ KIdle /\ PIdle /\ SIdle /\ TIdle /\ QIdle

\* v.serialize()
MSerialize ==
    /\ m_pc = "start"
    /\ m_ser' = serialize(Fields(m_struct), m_value)
    /\ m_pc' = "serialized"
    /\ UNCHANGED <<m_struct, m_value, m_in, m_craft, m_de, not_mvars>>

\* T::deserialize(&bytes) of the bytes serialize returned
MDeserialize ==
    /\ m_pc = "serialized" /\ m_ser.tag = "Ok"
    /\ m_in' = m_ser.val
    /\ m_de' = deserialize(Fields(m_struct), m_in')
    /\ m_pc' = "roundtrip"
    /\ UNCHANGED <<m_struct, m_value, m_ser, m_craft, not_mvars>>

\* the lengths a truncation keeps: up to MaxCut bytes, or all but up to MaxCut
CutPoints(n) ==
    {k \in 0..MaxCut : k < n} \cup {n - j : j \in {i \in 1..MaxCut : i <= n}}

\* T::deserialize of a proper prefix of the bytes serialize returned
MDeserializePrefix ==
    /\ m_pc = "serialized" /\ m_ser.tag = "Ok"
    /\ \E k \in CutPoints(BLen(m_ser.val)) :
          /\ m_in' = BTake(m_ser.val, k)
          /\ m_de' = deserialize(Fields(m_struct), m_in')
    /\ m_pc' = "truncated"
    /\ UNCHANGED <<m_struct, m_value, m_ser, m_craft, not_mvars>>

\* the declared lengths drawn for a prefix of type ty
DeclaredLens(ty) ==
    {v \in {-2147483647 - 1, -32768, -128, -1, 0, 1, 2, 127, 255, 32767, 65535,
            MAX_PREFIXED_SIZE - 1, MAX_PREFIXED_SIZE, MAX_PREFIXED_SIZE + 1,
            MAX_PREFIXED_SIZE + 2, 2147483647} : in_type(v, ty)}

\* how many bytes follow a prefix that declares len
FollowLens(len) ==
    IF len <= 0 \/ len > MAX_PREFIXED_SIZE + 2 THEN {0, 1, 2}
    ELSE {0, 1, 2, len - 1, len, len + 1, len + 2}

\* T::deserialize of bytes from the wire: a first blob declared `len` long and
\* `follow` bytes after the prefix
MDeserializeCrafted ==
    /\ m_pc = "start" /\ Fields(m_struct)[1].kind = "prefixed"
    /\ \E len \in DeclaredLens(Fields(m_struct)[1].ty) :
       \E follow \in FollowLens(len) :
          /\ m_craft' = [len |-> len, follow |-> follow]
          /\ m_in' = BCat(Bytes(to_le_bytes(len, Fields(m_struct)[1].ty.w)),
                          Run(follow, 171))
          /\ m_de' = deserialize(Fields(m_struct), m_in')
    /\ m_pc' = "crafted"
    /\ UNCHANGED <<m_struct, m_value, m_ser, not_mvars>>

MNext == MSerialize \/ MDeserialize \/ MDeserializePrefix \/ MDeserializeCrafted

SpecMessage == MInit /\ [][MNext]_vars

(***************************************************************************)
(* The codec unions at work: a message is encoded and the encoding decoded *)
(* again, or bytes that arrived from the wire are decoded.                 *)
(***************************************************************************)
\* a message to encode, or none when the bytes come from the wire; what
\* encodes a handshake message: the #[codec] unions, the enum Message
\* of message.rs, and the conversions of message/*.rs into a Payload
Encoders == CodecUnions \cup {"Message", "Payload"}
Decoders == CodecUnions \cup {"Message"}
HasCatchAll(u) == u \in {"LoginUnknownI8", "LoginUnknownU8", "Message"}

OpcodeSamples(u) ==
    IF u = "LoginUnknownU8" THEN {0, 1, 2, 3, 127, 128, 255}
    ELSE {-128, -1, 0, 1, 2, 3, 127}
UnknownData == LitBlobs \cup {Run(n, 255) : n \in {16, 32768}}

MessagesOf(u) ==
    (IF u = "Payload" THEN {}
     ELSE {Known("ClientHello", b) : b \in ValuesFrom(ClientHelloFields, 1, TRUE)})
    \cup {Known("ServerHello", b) : b \in ValuesFrom(ServerHelloFields, 1, TRUE)}
    \cup {Known("ClientReady", b) : b \in ValuesFrom(ClientReadyFields, 1, FALSE)}
    \cup (IF HasCatchAll(u)
          THEN {Unknown(o, d) : o \in OpcodeSamples(u), d \in UnknownData}
          ELSE {})

encode_with(u, m) ==
    CASE u = "Message" -> Ok(Message_into(m))
      [] u = "Payload" -> (IF m.variant = "ClientReady"
                           THEN ClientReady_try_into(m.body)
                           ELSE ServerHello_try_into(m.body))
      [] OTHER -> encode(Union(u), m)

decode_with(u, data) ==
    IF u = "Message" THEN Message_try_from(data) ELSE decode(Union(u), data)

\* bytes from the wire: an opcode byte and a body that is arbitrary, declares
\* a blob length, or is the body of a small message, whole, cut or extended
WireOpcodes == {0, 1, 2, 3, 127, 128, 255}
WireSizes == {-32768, -1, 0, 1, 2, 32767}
SizedBodies ==
    {BCat(Bytes(to_le_bytes(L, 2)), Run(n, 171)) : L \in WireSizes, n \in 0..3}
SmallMessages ==
    {m \in MessagesOf("Login") :
        \A i \in 1..Len(m.body) :
           VariantNamed(Union("Login"), m.variant).fields[i].kind = "prefixed"
              => m.body[i] \in LitBlobs}
SmallBodies == {BDrop(Message_into(m), 1) : m \in SmallMessages}
WireBodies ==
    LitBlobs \cup SizedBodies
    \cup {BCat(Bytes(<<1, 0, 171>>), b) : b \in SizedBodies}
    \cup SmallBodies
    \cup {BTake(b, BLen(b) - 1) : b \in SmallBodies}
    \cup {BCat(b, Run(1, 7)) : b \in SmallBodies}
\* the 8 bytes at pos are an i64 within 32 bits, the integers of the model
Small64(data, pos) ==
    LET q == Plain(BSlice(data, pos, 8))
    IN  \/ q[4] < 128 /\ \A i \in 5..8 : q[i] = 0
        \/ q[4] >= 128 /\ \A i \in 5..8 : q[i] = 255
WithinModel(o, b) ==
    o = 0 => /\ BLen(b) >= 8 => Small64(b, 0)
             /\ BLen(b) >= 16 => Small64(b, 8)
WireInputs ==
    {<<>>} \cup {BCat(Run(1, p[1]), p[2]) :
                   p \in {x \in WireOpcodes \X WireBodies : WithinModel(x[1], x[2])}}

CInit ==
    /\ c_pc = "start"
    /\ c_union \in Encoders
    /\ c_msg \in MessagesOf(c_union) \cup {None}
    /\ c_enc = None
    /\ c_in = <<>>
    /\ c_dec = None
    /\ c_target = "none"
    /\ c_conv = None
    /\ MIdle /\ FIdle /\ HIdle /\ KIdle /\ PIdle /\ SIdle /\ TIdle /\ QIdle

\* m.encode(), Into::<Vec<u8>>::into(m), m.try_into()
CEncode ==
    /\ c_pc = "start" /\ c_msg # None
    /\ c_enc' = encode_with(c_union, c_msg)
    /\ c_pc' = "encoded"
    /\ UNCHANGED <<c_union, c_msg, c_in, c_dec, c_target, c_conv, not_cvars>>

\* C::decode, Message::try_from of the bytes the encoder returned
CDecode ==
    /\ c_pc = "encoded" /\ c_enc.tag = "Ok" /\ c_union \in Decoders
    /\ c_in' = c_enc.val
    /\ c_dec' = decode_with(c_union, c_in')
    /\ c_pc' = "roundtrip"
    /\ UNCHANGED <<c_union, c_msg, c_enc, c_target, c_conv, not_cvars>>

\* C::decode, Message::try_from of bytes from the wire
CDecodeWire ==
    /\ c_pc = "start" /\ c_msg = None /\ c_union \in Decoders
    /\ c_in' \in WireInputs
    /\ c_dec' = decode_with(c_union, c_in')
    /\ c_pc' = "wire"
    /\ UNCHANGED <<c_union, c_msg, c_enc, c_target, c_conv, not_cvars>>

\* T::try_from(m.into()) for a message m of the union's type named by the
\* variant, T::try_from(value) for a value holding Unknown
CTryFrom ==
    /\ c_pc = "start" /\ c_msg # None /\ c_union \in CodecUnions
    /\ c_target' \in MessageTypes
    /\ c_conv' = try_from(c_target',
                          IF c_msg.variant = "Unknown" THEN c_msg
                          ELSE into(Struct(c_msg.variant, c_msg.body)))
    /\ c_pc' = "converted"
    /\ UNCHANGED <<c_union, c_msg, c_enc, c_in, c_dec, not_cvars>>

\* T::try_from(payload) of the Payload that m.try_into() returned
CTryFromPayload ==
    /\ c_pc = "encoded" /\ c_enc.tag = "Ok" /\ c_union = "Payload"
    /\ c_in' = c_enc.val.data
    /\ \E checks \in BOOLEAN :
          c_dec' = IF c_msg.variant = "ServerHello"
                   THEN ServerHello_try_from(c_enc.val)
                   ELSE ClientReady_try_from(c_enc.val, checks)
    /\ c_pc' = "payload_back"
    /\ UNCHANGED <<c_union, c_msg, c_enc, c_target, c_conv, not_cvars>>

\* bytes that follow an encoding on the wire
TrailingBytes == {Run(1, 0), Bytes(<<2, 0, 0>>), Run(32768, 255)}

\* the bytes an encoder returned, the decoding of bytes in their place and
\* the encoding of what a decoder returned
encoded_bytes(u, enc) == IF u = "Payload" THEN enc.data ELSE enc
\* mutant of decode_in_place: bytes after the encoding are an error
decode_in_place_exact(u, enc, bytes, checks) ==
    IF bytes # encoded_bytes(u, enc) THEN Err("InvalidData", "trailing bytes")
    ELSE IF u = "Payload"
    THEN ClientReady_try_from([opcode |-> enc.opcode, data |-> bytes], checks)
    ELSE decode_with(u, bytes)
decode_in_place(u, enc, bytes, checks) ==
    IF u = "Payload"
    THEN ClientReady_try_from([opcode |-> enc.opcode, data |-> bytes], checks)
    ELSE decode_with(u, bytes)
encode_again(u, dec) ==
    IF u = "Payload" THEN ClientReady_try_into(dec.fields) ELSE encode_with(u, dec)

\* C::decode, Message::try_from, ClientReady::try_from of the bytes the
\* encoder returned for a known message with more bytes after them, and
\* the encoding of what was decoded
CDecodeTrailing ==
    /\ c_pc = "encoded" /\ c_enc.tag = "Ok" /\ c_msg.variant # "Unknown"
    /\ c_union = "Payload" => c_msg.variant = "ClientReady"
    /\ \E s \in TrailingBytes : \E checks \in BOOLEAN :
       \E d \in {decode_in_place(c_union, c_enc.val,
                                  BCat(encoded_bytes(c_union, c_enc.val), s), checks)} :
          /\ c_in' = BCat(encoded_bytes(c_union, c_enc.val), s)
          /\ c_dec' = d
          /\ c_conv' = IF d.tag = "Ok" THEN encode_again(c_union, d.val) ELSE None
    /\ c_pc' = "trailing"
    /\ UNCHANGED <<c_union, c_msg, c_enc, c_target, not_cvars>>

CNext ==
    \/ CEncode \/ CDecode \/ CDecodeWire \/ CTryFrom \/ CTryFromPayload
    \/ CDecodeTrailing

SpecCodec == CInit /\ [][CNext]_vars

(***************************************************************************)
(* Framing: [length: i16 LE][encoded message], the length counting its own *)
(* two bytes.  Arithmetic that overflows panics in a build with overflow   *)
(* checks (debug) and wraps in a build without them (release).             *)
(***************************************************************************)
\* a + b and a - b on i16
i16_add(a, b, checks) ==
    IF a + b <= 32767 THEN Ok(a + b)
    ELSE IF checks THEN Panic("attempt to add with overflow")
    ELSE Ok(as_i16(a + b))
i16_sub(a, b, checks) ==
    IF a - b >= -32768 THEN Ok(a - b)
    ELSE IF checks THEN Panic("attempt to subtract with overflow")
    ELSE Ok(as_i16(a - b))
\* a - b on usize; a wrapped difference is a usize above isize::MAX
usize_sub(a, b, checks) ==
    IF ~ULt(a, b) THEN Ok(a - b)
    ELSE IF checks THEN Panic("attempt to subtract with overflow")
    ELSE Ok(a - b)

\* what a write leaves: its result, the bytes it wrote to the stream and
\* whether it flushed the stream
Written(res, out, flushed) == [res |-> res, out |-> out, flushed |-> flushed]
\* what a read leaves: its result, the payload buffers it allocated and the
\* number of bytes it took from the stream
ReadDone(res, alloc, consumed) == [res |-> res, alloc |-> alloc, consumed |-> consumed]

Frame(length, encoded) == BCat(Bytes(to_le_bytes(length, 2)), encoded)

\* mutant of ContextedStream::write_message: a length field goes out before
\* the size of the encoded message is checked
ContextedStream_write_message_early(un, m, checks) ==
    CHOOSE out \in
        { IF encoded.tag # "Ok" THEN Written(encoded, <<>>, FALSE)
          ELSE IF ~try_into_len(BLen(encoded.val), I16)
          THEN Written(Err("InvalidData", "Message too large"),
                       Bytes(to_le_bytes(as_i16(BLen(encoded.val) + 2), 2)), FALSE)
          ELSE LET length == i16_add(BLen(encoded.val), 2, checks) IN
               IF length.tag # "Ok" THEN Written(length, <<>>, FALSE)
               ELSE Written(Ok(<<>>), Frame(length.val, encoded.val), FALSE) :
          encoded \in { encode(un, m) } } : TRUE

\* ContextedStream::<S, C>::write_message
ContextedStream_write_message(un, m, checks) ==
    CHOOSE out \in
        { IF encoded.tag # "Ok" THEN Written(encoded, <<>>, FALSE)
          ELSE IF ~try_into_len(BLen(encoded.val), I16)
          THEN Written(Err("InvalidData", "Message too large"), <<>>, FALSE)
          ELSE LET length == i16_add(BLen(encoded.val), 2, checks) IN
               IF length.tag # "Ok" THEN Written(length, <<>>, FALSE)
               ELSE Written(Ok(<<>>), Frame(length.val, encoded.val), FALSE) :
          encoded \in { encode(un, m) } } : TRUE

\* payload::Unknown::OPCODE = i8::MIN
Unknown_OPCODE == -128

\* Packet::encode_packet for the payload type P
encode_packet(P_OPCODE, payload) == BCat(Run(1, P_OPCODE % 256), payload)

\* mutant of decode_packet: the opcode byte compared as an unsigned byte
decode_packet_unsigned(P_OPCODE, data) ==
    IF ~CanRead(data, 0, 1) THEN Eof
    ELSE LET opcode == from_le_bytes(Plain(BSlice(data, 0, 1)), FALSE) IN
         IF opcode # P_OPCODE
         THEN Err("InvalidData", <<"Expected opcode", P_OPCODE, "found", opcode>>)
         ELSE Ok(BDrop(data, 1))

\* Packet::decode_packet for the payload type Unknown
decode_packet(P_OPCODE, data) ==
    IF ~CanRead(data, 0, 1) THEN Eof
    ELSE LET opcode == from_le_bytes(Plain(BSlice(data, 0, 1)), TRUE) IN
         IF opcode # P_OPCODE
         THEN Err("InvalidData", <<"Expected opcode", P_OPCODE, "found", opcode>>)
         ELSE Ok(BDrop(data, 1))

\* WritePacket::write_packet of an Unknown payload
WritePacket_write_packet(payload, checks) ==
    LET packet_buf == encode_packet(Unknown_OPCODE, payload)
        size == i16_add(as_i16(BLen(packet_buf)), 2, checks)
    IN  IF size.tag # "Ok" THEN Written(size, <<>>, FALSE)
        ELSE Written(Ok(<<>>), Frame(size.val, packet_buf), TRUE)

\* WriteMessage::write_message
WriteMessage_write_message(m) ==
    CHOOSE out \in
        { Written(Ok(<<>>), Frame(as_i16(BLen(bytes) + 2), bytes), FALSE) :
          bytes \in { Message_into(m) } } : TRUE

\* the length field of a stream that holds one
LengthField(stream) == from_le_bytes(Plain(BTake(stream, 2)), TRUE)

\* mutant of ReadPayload: the bytes of the length field are not counted
ReadPayload_uncounted(stream, n) ==
    IF capacity_overflow(n) THEN ReadDone(Panic("capacity overflow"), <<>>, 2)
    ELSE IF ~CanRead(stream, 2, n) THEN ReadDone(Eof, <<n>>, BLen(stream))
    ELSE ReadDone(Ok(BSlice(stream, 2, n)), <<n>>, n)

\* vec![0u8; n] and read_exact into it: the buffer, or how the read ended
ReadPayload(stream, n) ==
    IF capacity_overflow(n) THEN ReadDone(Panic("capacity overflow"), <<>>, 2)
    ELSE IF ~CanRead(stream, 2, n) THEN ReadDone(Eof, <<n>>, BLen(stream))
    ELSE ReadDone(Ok(BSlice(stream, 2, n)), <<n>>, 2 + n)

\* C::decode(&buffer)?.try_into() into the target type T: a variant's struct,
\* or C itself
decode_into(un, target, buffer) ==
    CHOOSE out \in
        { IF d.tag # "Ok" THEN d
          ELSE IF target # "Self" /\ d.val.variant # target
          THEN Err("InvalidData", "Failed to convert message")
          ELSE d : d \in {decode(un, buffer)} } : TRUE

\* ContextedStream::<S, C>::read_message::<T>
ContextedStream_read_message(un, target, stream, checks) ==
    IF ~CanRead(stream, 0, 2) THEN ReadDone(Eof, <<>>, BLen(stream))
    ELSE IF LengthField(stream) < 0
    THEN ReadDone(Err("InvalidData", "Invalid message length"), <<>>, 2)
    ELSE LET size == usize_sub(LengthField(stream), 2, checks) IN
         IF size.tag # "Ok" THEN ReadDone(size, <<>>, 2)
         ELSE CHOOSE out \in
                  { IF buffer.res.tag # "Ok" THEN buffer
                    ELSE ReadDone(decode_into(un, target, buffer.res.val),
                                  buffer.alloc, buffer.consumed) :
                    buffer \in {ReadPayload(stream, size.val)} } : TRUE

\* Message::try_from(msg_buf), any error mapped to "Invalid message", then
\* T::try_from(msg) for T = Message
try_from_mapped(msg_buf) ==
    CHOOSE out \in
        { IF msg.tag = "Err" THEN Err("InvalidData", "Invalid message") ELSE msg :
          msg \in {Message_try_from(msg_buf)} } : TRUE

\* ReadMessage::read_message::<Message>
ReadMessage_read_message(stream) ==
    IF ~CanRead(stream, 0, 2) THEN ReadDone(Eof, <<>>, BLen(stream))
    ELSE IF ULt(LengthField(stream), 2)
    THEN ReadDone(Err("InvalidData", "Invalid message size"), <<>>, 2)
    ELSE CHOOSE out \in
             { IF msg_buf.res.tag # "Ok" THEN msg_buf
               ELSE ReadDone(try_from_mapped(msg_buf.res.val),
                             msg_buf.alloc, msg_buf.consumed) :
               msg_buf \in {ReadPayload(stream, LengthField(stream) - 2)} } : TRUE

\* ReadPacket::read_packet of an Unknown payload
ReadPacket_read_packet(stream, checks) ==
    IF ~CanRead(stream, 0, 2) THEN ReadDone(Eof, <<>>, BLen(stream))
    ELSE LET size == i16_sub(LengthField(stream), 2, checks) IN
         IF size.tag # "Ok" THEN ReadDone(size, <<>>, 2)
         ELSE LET packet_buf == ReadPayload(stream, size.val) IN
              IF packet_buf.res.tag # "Ok" THEN packet_buf
              ELSE ReadDone(decode_packet(Unknown_OPCODE, packet_buf.res.val),
                            packet_buf.alloc, packet_buf.consumed)

(***************************************************************************)
(* A framed stream at work: a message is written and the stream read back, *)
(* or a stream that arrived from the wire is read.                         *)
(***************************************************************************)
FrameImpls == {"ContextedStream", "Packet", "Message"}

\* the codec C of a ContextedStream, the enum Message, the payload Unknown
FrameUnions(impl) ==
    CASE impl = "ContextedStream" -> {"Login", "LoginUnknownI8"}
      [] impl = "Message" -> {"Message"}
      [] impl = "Packet" -> {"Unknown"}

\* the type T a read is asked for
FrameTargets(impl) ==
    IF impl = "ContextedStream" THEN {"ClientHello", "ClientReady", "Self"}
    ELSE {"Self"}

\* blob lengths that put the encoded length around the largest frame and
\* around 2^16
FrameBlobLens == {0, 1, 32761, 32762, 32763, 32764, 32765, 32766, 32767, 32768,
                  65531, 65532, 65533, 65534}
FrameBlobs == {Run(n, 255) : n \in FrameBlobLens}

\* what is written: a message of the union or, for a packet, the payload
FrameMessages(u) ==
    IF u = "Unknown" THEN {[payload |-> x] : x \in FrameBlobs}
    ELSE {Known("ClientHello", b) : b \in ValuesFrom(ClientHelloFields, 1, TRUE)}
         \cup {Known("ServerHello", <<x, Run(1, 0), 4>>) : x \in FrameBlobs}
         \cup {Known("ClientReady", <<x>>) : x \in FrameBlobs}
         \cup (IF HasCatchAll(u) THEN {Unknown(127, x) : x \in FrameBlobs} ELSE {})

\* streams from the wire: nothing, one byte, or a length field and what
\* follows it
WireLengths == {-32768, -32767, -1, 0, 1, 2, 3, 5, 19, 32767}
WireFollows ==
    {<<>>, Run(1, 2), Bytes(<<2, 0, 0>>), Bytes(<<2, 1, 0, 7>>), Bytes(<<2, 255, 255>>),
     Bytes(<<2, 5, 0>>),
     Bytes(<<127, 0, 1>>), Bytes(<<128, 0, 1>>), Run(17, 0),
     BCat(Run(1, 128), Run(32764, 255)), BCat(Run(1, 128), Run(32765, 255)),
     BCat(Run(1, 128), Run(32766, 255))}
WireStreams ==
    {<<>>, Run(1, 0)} \cup {Frame(L, b) : L \in WireLengths, b \in WireFollows}

FInit ==
    /\ f_pc = "start"
    /\ f_impl \in FrameImpls
    /\ f_checks \in BOOLEAN
    /\ f_union \in FrameUnions(f_impl)
    /\ f_msg \in FrameMessages(f_union) \cup {None}
    /\ f_target \in FrameTargets(f_impl)
    /\ f_stream = <<>>
    /\ f_flushed = FALSE
    /\ f_res = None
    /\ f_alloc = <<>>
    /\ f_consumed = 0
    /\ MIdle /\ CIdle /\ HIdle /\ KIdle /\ PIdle /\ SIdle /\ TIdle /\ QIdle

write_with(impl, u, m, checks) ==
    CASE impl = "ContextedStream" -> ContextedStream_write_message(Union(u), m, checks)
      [] impl = "Packet" -> WritePacket_write_packet(m.payload, checks)
      [] impl = "Message" -> WriteMessage_write_message(m)

read_with(impl, u, target, stream, checks) ==
    CASE impl = "ContextedStream" ->
            ContextedStream_read_message(Union(u), target, stream, checks)
      [] impl = "Packet" -> ReadPacket_read_packet(stream, checks)
      [] impl = "Message" -> ReadMessage_read_message(stream)

\* stream.write_message(m), stream.write_packet(&payload, &ctx)
FWrite ==
    /\ f_pc = "start" /\ f_msg # None
    /\ LET w == write_with(f_impl, f_union, f_msg, f_checks)
       IN  /\ f_res' = w.res
           /\ f_stream' = w.out
           /\ f_flushed' = w.flushed
    /\ f_pc' = "written"
    /\ UNCHANGED <<f_impl, f_checks, f_union, f_msg, f_target, f_alloc, f_consumed,
                   not_fvars>>

FReadOf(stream) ==
    LET r == read_with(f_impl, f_union, f_target, stream, f_checks)
    IN  /\ f_res' = r.res
        /\ f_alloc' = r.alloc
        /\ f_consumed' = r.consumed

\* stream.read_message::<T>(), stream.read_packet(&ctx) on the other end of
\* a stream a write succeeded on
FReadBack ==
    /\ f_pc = "written" /\ f_res.tag = "Ok"
    /\ FReadOf(f_stream)
    /\ f_pc' = "readback"
    /\ UNCHANGED <<f_impl, f_checks, f_union, f_msg, f_target, f_stream, f_flushed,
                   not_fvars>>

\* stream.read_message::<T>(), stream.read_packet(&ctx) on a stream from the wire
FReadWire ==
    /\ f_pc = "start" /\ f_msg = None
    /\ f_stream' \in WireStreams
    /\ FReadOf(f_stream')
    /\ f_pc' = "read"
    /\ UNCHANGED <<f_impl, f_checks, f_union, f_msg, f_target, f_flushed,
                   not_fvars>>

FNext == FWrite \/ FReadBack \/ FReadWire

SpecFrame == FInit /\ [][FNext]_vars

(***************************************************************************)
(* ClientHello and its obfuscation.  A 64-bit value is four 16-bit limbs,  *)
(* the least significant first; an i64 is negative when the top bit of the *)
(* last limb is set.  A SystemTime is a number of milliseconds before or   *)
(* after the UNIX epoch, the number a u64.                                 *)
(***************************************************************************)
RECURSIVE bit_xor(_, _)
bit_xor(a, b) ==
    IF a = 0 THEN b
    ELSE IF b = 0 THEN a
    ELSE ((a + b) % 2) + 2 * bit_xor(a \div 2, b \div 2)

\* a ^ b on i64
xor64(a, b) == [i \in 1..4 |-> bit_xor(a[i], b[i])]
is_negative64(v) == v[4] >= 32768

\* i64::to_le_bytes, i64::from_le_bytes
to_le_bytes64(v) ==
    [k \in 1..8 |-> IF k % 2 = 1 THEN v[(k + 1) \div 2] % 256 ELSE v[k \div 2] \div 256]
from_le_bytes64(q) == [i \in 1..4 |-> q[2 * i - 1] + 256 * q[2 * i]]

SystemTime(before, millis) == [before |-> before, millis |-> millis]

\* Context::default()
DEFAULT_PRIMARY == <<26056, 35291, 41270, 11420>>
DEFAULT_SECONDARY == <<4729, 14224, 36056, 50562>>

\* message::ClientHello { obfuscated_integrity, obfuscated_timestamp }
Hello(oi, ot) == [obfuscated_integrity |-> oi, obfuscated_timestamp |-> ot]

\* ClientHello::new
ClientHello_new(integrity, timestamp, primary, secondary) ==
    IF timestamp.before THEN Err("str", "Time went backwards")
    ELSE IF is_negative64(timestamp.millis)
    THEN Err("str", "Timestamp too large to fit in i64")
    ELSE Ok(Hello(xor64(integrity, primary),
                  xor64(xor64(timestamp.millis, integrity), secondary)))

\* ClientHello::integrity
ClientHello_integrity(self, primary) == xor64(self.obfuscated_integrity, primary)

\* mutant of ClientHello::timestamp: the integrity is left in
ClientHello_timestamp_keeps_integrity(self, primary, secondary) ==
    LET timestamp_millis == xor64(self.obfuscated_timestamp, secondary)
    IN  IF is_negative64(timestamp_millis) THEN Err("str", "Timestamp out of range")
        ELSE Ok(SystemTime(FALSE, timestamp_millis))

\* ClientHello::timestamp
ClientHello_timestamp(self, primary, secondary) ==
    LET timestamp_millis ==
            xor64(xor64(self.obfuscated_timestamp, ClientHello_integrity(self, primary)),
                  secondary)
    IN  IF is_negative64(timestamp_millis) THEN Err("str", "Timestamp out of range")
        ELSE Ok(SystemTime(FALSE, timestamp_millis))

\* mutant of the derived serialize of ClientHello: the fields swapped
ClientHello_serialize_swapped(self) ==
    Ok(BCat(Bytes(to_le_bytes64(self.obfuscated_timestamp)),
            Bytes(to_le_bytes64(self.obfuscated_integrity))))

\* the derived serialize and deserialize of ClientHello, on 64-bit values
ClientHello_serialize(self) ==
    Ok(BCat(Bytes(to_le_bytes64(self.obfuscated_integrity)),
            Bytes(to_le_bytes64(self.obfuscated_timestamp))))
ClientHello_deserialize(data) ==
    IF 8 > BLen(data)
    THEN FieldErr("InvalidData", "Insufficient data", ClientHelloFields[1], 0, 0)
    ELSE IF 16 > BLen(data)
    THEN FieldErr("InvalidData", "Insufficient data", ClientHelloFields[2], 8, 0)
    ELSE Ok(Hello(from_le_bytes64(Plain(BSlice(data, 0, 8))),
                  from_le_bytes64(Plain(BSlice(data, 8, 8)))))

\* the payload ClientHello { integrity, timestamp }
PayloadHello(integrity, timestamp) == [integrity |-> integrity, timestamp |-> timestamp]

\* Payload::encode for ClientHello (payloads/client_hello.rs) and the
\* serialize of payload! ClientHello (payload/client_hello.rs)
PayloadHello_encode(self, primary, secondary) ==
    IF self.timestamp.before
    THEN Panic("called Result::unwrap() on an Err value")
    ELSE Ok(BCat(Bytes(to_le_bytes64(xor64(self.integrity, primary))),
                 Bytes(to_le_bytes64(xor64(xor64(self.timestamp.millis, self.integrity),
                                           secondary)))))

\* what decoding leaves once the 16 bytes are there
PayloadHello_from(data, primary, secondary) ==
    LET integrity == xor64(from_le_bytes64(Plain(BSlice(data, 0, 8))), primary)
        timestamp_millis ==
            xor64(xor64(from_le_bytes64(Plain(BSlice(data, 8, 8))), integrity), secondary)
    IN  Ok(PayloadHello(integrity, SystemTime(FALSE, timestamp_millis)))

\* Payload::decode for ClientHello (payloads/client_hello.rs)
PayloadHello_decode(data, primary, secondary) ==
    IF ~CanRead(data, 0, 8) \/ ~CanRead(data, 8, 8) THEN Eof
    ELSE PayloadHello_from(data, primary, secondary)

\* the deserialize of payload! ClientHello (payload/client_hello.rs)
PayloadHello_deserialize(data, primary, secondary) ==
    IF BLen(data) < 16 THEN Err("UnexpectedEof", "Not enough data for ClientHello")
    ELSE PayloadHello_from(data, primary, secondary)

(***************************************************************************)
(* ClientHello at work: built from an integrity value and a time, sent as  *)
(* bytes, and the values taken out again.                                  *)
(***************************************************************************)
\* message/client_hello.rs, payloads/client_hello.rs, payload/client_hello.rs
HelloImpls == {"message", "payloads", "payload"}

\* 0, -1, i64::MIN, i64::MAX and 12345
ZERO64 == <<0, 0, 0, 0>>
ONES64 == <<65535, 65535, 65535, 65535>>
MIN64 == <<0, 0, 0, 32768>>
MAX64 == <<65535, 65535, 65535, 32767>>
IntegritySamples == {ZERO64, ONES64, MIN64, <<12345, 0, 0, 0>>, DEFAULT_SECONDARY}
PrimarySamples == {DEFAULT_PRIMARY, ZERO64, ONES64}
SecondarySamples == {DEFAULT_SECONDARY, ZERO64, MIN64}
\* times after the epoch, up to u64::MAX milliseconds, and before it
TimeSamples ==
    {SystemTime(FALSE, ms) : ms \in {ZERO64, <<1, 0, 0, 0>>, <<19712, 25964, 417, 0>>,
                                     MAX64, MIN64, ONES64}}
    \cup {SystemTime(TRUE, ms) : ms \in {<<1, 0, 0, 0>>, <<19712, 25964, 417, 0>>, MIN64}}

HInit ==
    /\ h_pc = "start"
    /\ h_impl \in HelloImpls
    /\ h_integrity \in IntegritySamples
    /\ h_time \in TimeSamples
    /\ h_primary \in PrimarySamples
    /\ h_secondary \in SecondarySamples
    /\ h_hello = None
    /\ h_bytes = None
    /\ h_back = None
    /\ h_out = None
    /\ MIdle /\ CIdle /\ FIdle /\ KIdle /\ PIdle /\ SIdle /\ TIdle /\ QIdle

\* ClientHello::new(integrity, timestamp, primary, secondary)
HNew ==
    /\ h_pc = "start" /\ h_impl = "message"
    /\ h_hello' = ClientHello_new(h_integrity, h_time, h_primary, h_secondary)
    /\ h_pc' = "built"
    /\ UNCHANGED <<h_impl, h_integrity, h_time, h_primary, h_secondary, h_bytes,
                   h_back, h_out, not_hvars>>

\* hello.serialize()
HSerialize ==
    /\ h_pc = "built" /\ h_hello.tag = "Ok"
    /\ h_bytes' = ClientHello_serialize(h_hello.val)
    /\ h_pc' = "serialized"
    /\ UNCHANGED <<h_impl, h_integrity, h_time, h_primary, h_secondary, h_hello,
                   h_back, h_out, not_hvars>>

\* ClientHello::deserialize(&bytes)
HDeserialize ==
    /\ h_pc = "serialized"
    /\ h_back' = ClientHello_deserialize(h_bytes.val)
    /\ h_pc' = "deserialized"
    /\ UNCHANGED <<h_impl, h_integrity, h_time, h_primary, h_secondary, h_hello,
                   h_bytes, h_out, not_hvars>>

\* hello.integrity(primary), hello.timestamp(primary, secondary) on the
\* ClientHello built, or on the one deserialized
HRecover ==
    /\ \/ h_pc = "built" /\ h_hello.tag = "Ok"
       \/ h_pc = "deserialized" /\ h_back.tag = "Ok"
    /\ LET self == IF h_pc = "built" THEN h_hello.val ELSE h_back.val
       IN  h_out' = [integrity |-> ClientHello_integrity(self, h_primary),
                     timestamp |-> ClientHello_timestamp(self, h_primary, h_secondary)]
    /\ h_pc' = IF h_pc = "built" THEN "recovered" ELSE "recovered_back"
    /\ UNCHANGED <<h_impl, h_integrity, h_time, h_primary, h_secondary, h_hello,
                   h_bytes, h_back, not_hvars>>

\* Payload::encode(&hello, &mut data, &ctx), hello.serialize(&ctx)
HEncode ==
    /\ h_pc = "start" /\ h_impl \in {"payloads", "payload"}
    /\ h_bytes' = PayloadHello_encode(PayloadHello(h_integrity, h_time),
                                       h_primary, h_secondary)
    /\ h_pc' = "encoded"
    /\ UNCHANGED <<h_impl, h_integrity, h_time, h_primary, h_secondary, h_hello,
                   h_back, h_out, not_hvars>>

\* Payload::decode(data, &ctx), ClientHello::deserialize(&data, &ctx)
HDecode ==
    /\ h_pc = "encoded" /\ h_bytes.tag = "Ok"
    /\ h_back' = IF h_impl = "payloads"
                 THEN PayloadHello_decode(h_bytes.val, h_primary, h_secondary)
                 ELSE PayloadHello_deserialize(h_bytes.val, h_primary, h_secondary)
    /\ h_pc' = "decoded"
    /\ UNCHANGED <<h_impl, h_integrity, h_time, h_primary, h_secondary, h_hello,
                   h_bytes, h_out, not_hvars>>

HNext == HNew \/ HSerialize \/ HDeserialize \/ HRecover \/ HEncode \/ HDecode

SpecHello == HInit /\ [][HNext]_vars

(***************************************************************************)
(* The checksum selector of ServerHello.                                   *)
(***************************************************************************)
\* enum Checksum { None, Crc16, HmacSha256(i8) }
Checksum_None == [checksum |-> "None"]
Checksum_Crc16 == [checksum |-> "Crc16"]
Checksum_HmacSha256(size) == [checksum |-> "HmacSha256", size |-> size]

\* mutant of Checksum::try_from: every size from 2 to 32 is an HMAC size
Checksum_try_from_wide(size) ==
    IF size = 0 THEN Ok(Checksum_None)
    ELSE IF size = 1 THEN Ok(Checksum_Crc16)
    ELSE IF size \in 2..32 THEN Ok(Checksum_HmacSha256(size))
    ELSE Err("str", "Invalid checksum size")

\* impl TryFrom<i8> for Checksum
Checksum_try_from(size) ==
    IF size = 0 THEN Ok(Checksum_None)
    ELSE IF size = 1 THEN Ok(Checksum_Crc16)
    ELSE IF size \in 4..32 THEN Ok(Checksum_HmacSha256(size))
    ELSE Err("str", "Invalid checksum size")

\* impl Into<i8> for Checksum
Checksum_into(self) ==
    IF self.checksum = "None" THEN 0
    ELSE IF self.checksum = "Crc16" THEN 1
    ELSE self.size

KInit ==
    /\ k_pc = "start"
    /\ k_size \in -128..127
    /\ k_checksum = None
    /\ k_back = None
    /\ MIdle /\ CIdle /\ FIdle /\ HIdle /\ PIdle /\ SIdle /\ TIdle /\ QIdle

\* Checksum::try_from(size)
KTryFrom ==
    /\ k_pc = "start"
    /\ k_checksum' = Checksum_try_from(k_size)
    /\ k_pc' = "converted"
    /\ UNCHANGED <<k_size, k_back, not_kvars>>

\* checksum.into()
KInto ==
    /\ k_pc = "converted" /\ k_checksum.tag = "Ok"
    /\ k_back' = Ok(Checksum_into(k_checksum.val))
    /\ k_pc' = "back"
    /\ UNCHANGED <<k_size, k_checksum, not_kvars>>

KNext == KTryFrom \/ KInto

SpecChecksum == KInit /\ [][KNext]_vars

(***************************************************************************)
(* Payloads that carry keys and signatures (payload/*.rs, payloads/*.rs).  *)
(* A P-256 public key is a point of the curve, its coordinates 32 bytes    *)
(* each; the points and scalars used here repeat one byte 32 times.        *)
(***************************************************************************)
CoordinateLen == 32
PublicKey(x, y) == [x |-> x, y |-> y]
\* the public key of the secret key sk
CurvePointOf == << PublicKey(17, 34), PublicKey(34, 34), PublicKey(0, 200) >>
SecretKeys == 1..Len(CurvePointOf)
CurvePoints == {CurvePointOf[sk] : sk \in SecretKeys}

\* public_key.to_encoded_point(false).as_bytes(): 04 || x || y
to_encoded_point(pk) ==
    BCat(BCat(Run(1, 4), Run(CoordinateLen, pk.x)), Run(CoordinateLen, pk.y))

\* EncodedPoint::from_bytes: the SEC1 tag and the length it announces
EncodedPoint_from_bytes(bytes) ==
    IF bytes = <<>> THEN Err("InvalidData", "PointEncoding")
    ELSE LET tag == bytes[1][2]
             expected == CASE tag = 0 -> 1
                           [] tag \in {2, 3, 5} -> 1 + CoordinateLen
                           [] tag = 4 -> 1 + 2 * CoordinateLen
                           [] OTHER -> -1
         IN  IF BLen(bytes) # expected THEN Err("InvalidData", "PointEncoding")
             ELSE Ok(bytes)

\* PublicKey::from_encoded_point(..).into_option().ok_or_else(..)
PublicKey_from_encoded_point(point) ==
    IF \E pk \in CurvePoints : to_encoded_point(pk) = point
    THEN Ok(CHOOSE pk \in CurvePoints : to_encoded_point(pk) = point)
    ELSE Err("InvalidData", "Invalid public key")

\* the two steps, as every decoder of a key runs them
PublicKey_parse(bytes) ==
    LET encoded_point == EncodedPoint_from_bytes(bytes)
    IN  IF encoded_point.tag # "Ok" THEN encoded_point
        ELSE PublicKey_from_encoded_point(encoded_point.val)

\* an ECDSA signature (r, s) and its DER form: 30 len 02 len r 02 len s, an
\* integer with its top bit set led by 00
Signature(r, s) == [r |-> r, s |-> s]
SignatureSamples == {Signature(17, 34), Signature(200, 34), Signature(200, 255)}
der_integer(b) ==
    LET digits == IF b >= 128 THEN BCat(Run(1, 0), Run(CoordinateLen, b))
                  ELSE Run(CoordinateLen, b)
    IN  BCat(Bytes(<<2, BLen(digits)>>), digits)
Signature_to_der(sig) ==
    LET body == BCat(der_integer(sig.r), der_integer(sig.s))
    IN  BCat(Bytes(<<48, BLen(body)>>), body)
Signature_from_der(bytes) ==
    IF \E sig \in SignatureSamples : Signature_to_der(sig) = bytes
    THEN Ok(CHOOSE sig \in SignatureSamples : Signature_to_der(sig) = bytes)
    ELSE Err("InvalidData", "signature error")

\* data[cursor..cursor + size] behind the check data.len() < cursor + size,
\* size an i16 taken as usize: for a negative size the sum is a usize above
\* every length, or overflows
SliceAt(data, cursor, size, checks, msg) ==
    IF size < 0 /\ size >= -cursor
    THEN IF checks THEN Panic("attempt to add with overflow")
         ELSE Panic("slice index starts after it ends")
    ELSE IF size < 0 \/ BLen(data) < cursor + size THEN Err("UnexpectedEof", msg)
    ELSE Ok(BSlice(data, cursor, size))

\* Payload for ClientReady { secret_key } (payloads/client_ready.rs)
SecretReady(sk) == [secret_key |-> sk]
SecretReady_encode(self) ==
    LET uncompressed_point_bytes == to_encoded_point(CurvePointOf[self.secret_key])
    IN  Ok(BCat(Bytes(to_le_bytes(as_i16(BLen(uncompressed_point_bytes)), 2)),
                uncompressed_point_bytes))
SecretReady_decode(data) ==
    LET point == ReadSized(data, 0) IN
    IF point.tag # "Ok" THEN point
    ELSE LET public_key == PublicKey_parse(point.val) IN
    IF public_key.tag # "Ok" THEN public_key
    ELSE Err("Unsupported",
             "Cannot decode ClientReady - private key cannot be reconstructed from public key")

\* payload! ClientReady { public_key } (payload/client_ready.rs)
PayloadReady(pk) == [public_key |-> pk]
PayloadReady_serialize(self) ==
    LET uncompressed_point_bytes == to_encoded_point(self.public_key)
    IN  Ok(BCat(Bytes(to_le_bytes(as_i16(BLen(uncompressed_point_bytes)), 2)),
                uncompressed_point_bytes))
PayloadReady_deserialize(data, checks) ==
    IF BLen(data) < 2 THEN Err("UnexpectedEof", "Not enough data for public key size")
    ELSE LET uncompressed_point_size == from_le_bytes(Plain(BSlice(data, 0, 2)), TRUE)
             uncompressed_point_bytes ==
                 SliceAt(data, 2, uncompressed_point_size, checks,
                         "Not enough data for public key")
         IN  IF uncompressed_point_bytes.tag # "Ok" THEN uncompressed_point_bytes
             ELSE LET public_key == PublicKey_parse(uncompressed_point_bytes.val)
                  IN  IF public_key.tag # "Ok" THEN public_key
                      ELSE Ok(PayloadReady(public_key.val))

\* payload! ServerHello { public_key, signature, checksum_size }
\* (payload/server_hello.rs)
PayloadServerHello(pk, sig, checksum_size) ==
    [public_key |-> pk, signature |-> sig, checksum_size |-> checksum_size]
PayloadServerHello_serialize(self) ==
    LET uncompressed_point_bytes == to_encoded_point(self.public_key)
        signature_bytes == Signature_to_der(self.signature)
    IN  Ok(BCat(BCat(BCat(Bytes(to_le_bytes(as_i16(BLen(uncompressed_point_bytes)), 2)),
                          uncompressed_point_bytes),
                     BCat(Bytes(to_le_bytes(as_i16(BLen(signature_bytes)), 2)),
                          signature_bytes)),
                Bytes(to_le_bytes(self.checksum_size, 1))))
PayloadServerHello_deserialize(data, checks) ==
    IF BLen(data) < 2 THEN Err("UnexpectedEof", "Not enough data for public key size")
    ELSE LET uncompressed_point_size == from_le_bytes(Plain(BSlice(data, 0, 2)), TRUE)
             uncompressed_point_bytes ==
                 SliceAt(data, 2, uncompressed_point_size, checks,
                         "Not enough data for public key")
    IN  IF uncompressed_point_bytes.tag # "Ok" THEN uncompressed_point_bytes
    ELSE LET public_key == PublicKey_parse(uncompressed_point_bytes.val)
             cursor == 2 + uncompressed_point_size
    IN  IF public_key.tag # "Ok" THEN public_key
    ELSE IF BLen(data) < cursor + 2
    THEN Err("UnexpectedEof", "Not enough data for signature size")
    ELSE LET signature_size == from_le_bytes(Plain(BSlice(data, cursor, 2)), TRUE)
             signature_bytes == SliceAt(data, cursor + 2, signature_size, checks,
                                        "Not enough data for signature")
    IN  IF signature_bytes.tag # "Ok" THEN signature_bytes
    ELSE LET signature == Signature_from_der(signature_bytes.val)
             end == cursor + 2 + signature_size
    IN  IF signature.tag # "Ok" THEN signature
    ELSE IF BLen(data) < end + 1
    THEN Err("UnexpectedEof", "Not enough data for hash size")
    ELSE Ok(PayloadServerHello(public_key.val, signature.val,
                               from_le_bytes(Plain(BSlice(data, end, 1)), TRUE)))

(***************************************************************************)
(* A payload value at work: serialized, deserialized, serialized again.    *)
(***************************************************************************)
\* payloads/*.rs, message/*.rs with its Payload conversions, payload/*.rs
PayloadImpls == {"payloads", "message", "payload"}
PayloadTypes(impl) ==
    IF impl = "payload" THEN {"ClientHello", "ServerHello", "ClientReady"}
    ELSE {"ClientReady"}
ChecksumSizes == {-128, -1, 0, 1, 32, 127}
PayloadValues(impl, type) ==
    CASE type = "ClientHello" ->
            {PayloadHello(i, t) : i \in IntegritySamples, t \in TimeSamples}
      [] type = "ServerHello" ->
            {PayloadServerHello(pk, sig, cs) :
                pk \in CurvePoints, sig \in SignatureSamples, cs \in ChecksumSizes}
      [] impl = "payloads" -> {SecretReady(sk) : sk \in SecretKeys}
      [] impl = "message" ->
            {Struct("ClientReady", << to_encoded_point(pk) >>) : pk \in CurvePoints}
      [] OTHER -> {PayloadReady(pk) : pk \in CurvePoints}

\* v.serialize(&ctx), v.encode(&mut data, &ctx), v.try_into(), the context
\* the default one
serialize_as(impl, type, v) ==
    CASE type = "ClientHello" -> PayloadHello_encode(v, DEFAULT_PRIMARY, DEFAULT_SECONDARY)
      [] type = "ServerHello" -> PayloadServerHello_serialize(v)
      [] impl = "payloads" -> SecretReady_encode(v)
      [] impl = "message" -> ClientReady_try_into(v.fields)
      [] OTHER -> PayloadReady_serialize(v)

\* T::deserialize(&data, &ctx), T::decode(data, &ctx), T::try_from(payload)
deserialize_as(impl, type, ser, checks) ==
    CASE type = "ClientHello" ->
            PayloadHello_deserialize(ser, DEFAULT_PRIMARY, DEFAULT_SECONDARY)
      [] type = "ServerHello" -> PayloadServerHello_deserialize(ser, checks)
      [] impl = "payloads" -> SecretReady_decode(ser)
      [] impl = "message" -> ClientReady_try_from(ser, checks)
      [] OTHER -> PayloadReady_deserialize(ser, checks)

\* the body bytes of what was serialized
BodyOf(impl, ser) == IF impl = "message" THEN ser.data ELSE ser

PInit ==
    /\ p_pc = "start"
    /\ p_impl \in PayloadImpls
    /\ p_type \in PayloadTypes(p_impl)
    /\ p_value \in PayloadValues(p_impl, p_type)
    /\ p_ser = None
    /\ p_de = None
    /\ p_reser = None
    /\ MIdle /\ CIdle /\ FIdle /\ HIdle /\ KIdle /\ SIdle /\ TIdle /\ QIdle

PSerialize ==
    /\ p_pc = "start"
    /\ p_ser' = serialize_as(p_impl, p_type, p_value)
    /\ p_pc' = "serialized"
    /\ UNCHANGED <<p_impl, p_type, p_value, p_de, p_reser, not_pvars>>

PDeserialize ==
    /\ p_pc = "serialized" /\ p_ser.tag = "Ok"
    /\ \E checks \in BOOLEAN :
          p_de' = deserialize_as(p_impl, p_type, p_ser.val, checks)
    /\ p_pc' = "deserialized"
    /\ UNCHANGED <<p_impl, p_type, p_value, p_ser, p_reser, not_pvars>>

PReserialize ==
    /\ p_pc = "deserialized" /\ p_de.tag = "Ok"
    /\ p_reser' = serialize_as(p_impl, p_type, p_de.val)
    /\ p_pc' = "reserialized"
    /\ UNCHANGED <<p_impl, p_type, p_value, p_ser, p_de, not_pvars>>

PNext == PSerialize \/ PDeserialize \/ PReserialize

SpecPayload == PInit /\ [][PNext]_vars

(***************************************************************************)
(* The handshake of examples/client.rs and examples/server.rs over one     *)
(* connection: two byte streams, client to server and server to client.    *)
(* A read on a stream waits until the stream holds bytes or the peer has   *)
(* closed its end.                                                         *)
(***************************************************************************)
\* message.into() for a handshake struct, and T::try_from(msg): the variant
\* of its type, any other variant an error
Message_from(m) == Known(m.type, m.fields)
\* mutant of T::try_from(msg): the message of any known variant
Struct_try_from_message_any(T, msg) ==
    IF msg.variant = "Unknown" THEN ErrUnit ELSE Ok(Struct(T, msg.body))
Struct_try_from_message(T, msg) ==
    IF msg.variant = T THEN Ok(Struct(T, msg.body)) ELSE ErrUnit

\* ReadMessage::read_message::<T> for a handshake struct T
ReadMessage_read_as(T, stream) ==
    CHOOSE out \in
        { IF r.res.tag # "Ok" THEN r
          ELSE ReadDone(IF Struct_try_from_message(T, r.res.val).tag = "Err"
                        THEN Err("InvalidData", "Type conversion failed")
                        ELSE Struct_try_from_message(T, r.res.val),
                        r.alloc, r.consumed) :
          r \in {ReadMessage_read_message(stream)} } : TRUE

\* A call of write_message or read_message is several calls on the socket,
\* and the peer's thread runs between them.  write_message is write_all of the
\* 2 bytes of the length field, then write_all of the encoded message.
\* read_message is read_exact of the 2 length bytes, the allocation of the
\* payload buffer, then read_exact of the payload; read_exact takes the bytes
\* that are there, up to the ones it wants, and waits for the rest until the
\* peer closes its end.

\* the bytes a read_message call has taken do not yet hold the frame: the
\* call stands in a read_exact
NeedsMore(stream) ==
    \/ ~CanRead(stream, 0, 2)
    \/ LengthField(stream) >= 2 /\ ~CanRead(stream, 2, LengthField(stream) - 2)

\* how many bytes the read_exact wants that a call which has taken `taken`
\* stands in: the rest of the length field, or the rest of the payload
Wanted(taken) ==
    IF ~CanRead(taken, 0, 2) THEN 2 - BLen(taken)
    ELSE LengthField(taken) - BLen(taken)

\* one read on the socket: the bytes of the stream that the call takes
TakeFrom(stream, taken) ==
    IF BLen(stream) <= Wanted(taken) THEN stream ELSE BTake(stream, Wanted(taken))

\* vec![0u8; length - 2]: the buffer of a call that waits for its payload
Allocated(taken) ==
    IF CanRead(taken, 0, 2) /\ LengthField(taken) >= 2
    THEN <<LengthField(taken) - 2>> ELSE <<>>

\* the errors of a socket whose peer has closed its end
BrokenPipe == Err("BrokenPipe", "Broken pipe (os error 32)")
ConnectionReset == Err("ConnectionReset", "Connection reset by peer (os error 104)")

\* one write call on a socket.  Once the peer has closed its end the outcome
\* is the transport's and the moment's: the call still takes the bytes (the
\* peer's reset has not come back yet), or it fails with BrokenPipe or with
\* ConnectionReset.  A peer that only shut down its sending half still reads.
SocketWrites(gone) ==
    {Ok(<<>>)} \cup (IF gone THEN {BrokenPipe, ConnectionReset} ELSE {})

\* write_message on a socket up to its first write_all: the outcomes of the
\* call that returns w on a whole stream.  The write of the length field
\* succeeds, or fails with nothing written when the peer has closed its end.
OnSocket(w, gone) ==
    IF w.res.tag = "Ok"
    THEN { IF o.tag = "Ok" THEN w ELSE Written(o, <<>>, FALSE) : o \in SocketWrites(gone) }
    ELSE {w}

\* a read on a socket that has no bytes left and whose peer has closed its
\* end: the outcomes of the read_message call that returns r at the end of
\* the stream.  The read finds the end of the stream, or fails with
\* ConnectionReset when the peer is gone (it closed with bytes unread, or
\* bytes were written to it after it had closed).
AtEnd(r, reset) ==
    {r} \cup (IF reset THEN {ReadDone(ConnectionReset, r.alloc, r.consumed)} ELSE {})

\* the most bytes one write call puts on a stream the peer has not read from
SendSpace == 9088
\* write_all is a loop of write calls: how many of the bytes `out` the next
\* call may put on the stream, all of them or the part there is room for
WriteCalls(out) == {BLen(out)} \cup {k \in {SendSpace} : k < BLen(out)}

\* the first write_all of a write_message that returned w on a whole stream:
\* the bytes that reach the stream, and the bytes the second write_all holds
LengthWritten(w) == IF w.res.tag = "Ok" THEN BTake(w.out, 2) ELSE w.out
PayloadPending(w) == IF w.res.tag = "Ok" THEN BDrop(w.out, 2) ELSE <<>>

HandshakeImpls == {"Message", "ContextedStream"}

\* stream.write_message(m)
write_as(impl, m, checks) ==
    IF impl = "Message" THEN WriteMessage_write_message(Message_from(m))
    ELSE ContextedStream_write_message(Union("Login"), into(m), checks)

\* stream.read_message::<T>()
read_as(impl, T, stream, checks) ==
    IF impl = "Message" THEN ReadMessage_read_as(T, stream)
    ELSE ContextedStream_read_message(Union("Login"), T, stream, checks)

\* the values of one run: the client's hello, the server's key and
\* signature, the client's key
HandshakeValues ==
    [hello : {Struct("ClientHello", <<42, 7>>), Struct("ClientHello", <<-1, 0>>)},
     server_key : {CurvePointOf[1], CurvePointOf[3]},
     signature : {Signature(17, 34), Signature(200, 255)},
     client_key : {CurvePointOf[1], CurvePointOf[2]}]

\* the values of the server when its peer is not the example client
WireValues == {v \in HandshakeValues :
                  /\ v.hello = Struct("ClientHello", <<42, 7>>)
                  /\ v.client_key = CurvePointOf[1]
                  /\ v.signature = Signature(17, 34)}

\* ServerHello::new(server_public_key, signature, Checksum::HmacSha256(16))
ServerHello_new(public_key, signature, checksum) ==
    Struct("ServerHello", << to_encoded_point(public_key), Signature_to_der(signature),
                             Checksum_into(checksum) >>)
\* ClientReady::new(client_public_key)
ClientReady_new(public_key) == Struct("ClientReady", << to_encoded_point(public_key) >>)

\* what a peer that is not the example client may send: frames, and a length
\* field of 32767 with no payload of its own
FrameOf(m) == WriteMessage_write_message(Message_from(m)).out
WireFrames ==
    { FrameOf(Struct("ClientHello", <<42, 7>>)),
      FrameOf(ClientReady_new(CurvePointOf[2])),
      FrameOf(ServerHello_new(CurvePointOf[1], Signature(17, 34), Checksum_HmacSha256(16))),
      Frame(5, Bytes(<<3, 1, 2>>)),
      Frame(5, Bytes(<<0, 1, 2>>)),
      Frame(5, Bytes(<<2, 255, 255>>)),
      Bytes(<<255, 127>>) }
MaxWireFrames == 3
RECURSIVE Concat(_)
Concat(frames) == IF frames = <<>> THEN <<>> ELSE BCat(Head(frames), Concat(Tail(frames)))
WireTraffic == {Concat(q) : q \in SeqsUpTo(WireFrames, MaxWireFrames)}

\* the type's opcode
OpcodeOf(T) == CASE T = "ClientHello" -> 0 [] T = "ServerHello" -> 1 [] T = "ClientReady" -> 2

\* one call of a peer when it returns: who made it, how it ended (send, recv,
\* fail, panic), the type it was made for and, for a read, whether it had
\* taken a whole frame and the opcode byte of that frame (-1 when it had none)
Event(who, op, what, whole, opcode) ==
    [who |-> who, op |-> op, what |-> what, whole |-> whole, opcode |-> opcode]
WholeFrame(stream) == ~NeedsMore(stream) /\ LengthField(stream) >= 2
FrameOpcode(stream) ==
    IF WholeFrame(stream) /\ LengthField(stream) >= 3 THEN Plain(BSlice(stream, 2, 1))[1]
    ELSE -1
Outcome(res, ok) ==
    IF res.tag = "Ok" THEN ok ELSE IF res.tag = "Panic" THEN "panic" ELSE "fail"
ReadEvent(who, r, T, taken) ==
    Event(who, Outcome(r.res, "recv"), T, WholeFrame(taken), FrameOpcode(taken))
SendEvent(who, T) == Event(who, "send", T, TRUE, OpcodeOf(T))
WriteFailed(who, w, T) == Event(who, Outcome(w.res, "send"), T, FALSE, -1)

\* examples/client.rs calls write_message(m, Encryption::None, Checksum::None)
\* and read_message::<T>(Encryption::None, Checksum::None).  The library
\* defines neither: its write_message takes the message alone and its
\* read_message takes nothing.  The checksum and encryption stages are no-ops,
\* so the client's calls are taken to be the frame contract of the stream:
\* the client writes and reads frames as the server does.

\* mutant of the client's write_message: the length field does not count
\* itself
client_write_message_uncounted(impl, m, checks) ==
    CHOOSE out \in
        { Written(w.res, IF w.out = <<>> THEN <<>>
                         ELSE Frame(LengthField(w.out) - 2, BDrop(w.out, 2)), w.flushed) :
          w \in {write_as(impl, m, checks)} } : TRUE

\* stream.write_message(m, Encryption::None, Checksum::None)
client_write_message(impl, m, checks) == write_as(impl, m, checks)
\* stream.read_message::<T>(Encryption::None, Checksum::None)
client_read_message(impl, T, stream, checks) == read_as(impl, T, stream, checks)

SInit ==
    /\ s_impl \in HandshakeImpls
    /\ s_checks \in BOOLEAN
    /\ s_peer \in {"client", "wire"}
    /\ s_vals \in IF s_peer = "client" THEN HandshakeValues ELSE WireValues
    /\ s_client = IF s_peer = "client" THEN "start" ELSE "wire"
    /\ s_server = "await_client_hello"
    /\ s_c2s \in IF s_peer = "client" THEN {<<>>} ELSE WireTraffic
    /\ s_s2c = <<>>
    /\ s_res = None
    /\ s_log = <<>>
    /\ s_cout = <<>> /\ s_cin = NoRead /\ s_sout = <<>> /\ s_sin = NoRead
    /\ MIdle /\ CIdle /\ FIdle /\ HIdle /\ KIdle /\ PIdle /\ TIdle /\ QIdle

\* the other end will send nothing more: a read finds the end of the stream
\* once the bytes are taken
ClientClosed == s_client \in {"half_closed", "absent", "done", "panicked"}
ServerClosed == s_server \in {"complete", "failed", "panicked", "stopped"}
\* the client has closed its end, and no longer reads: what a write to it
\* and a read at the end of its stream do is the socket's to choose.  (The
\* server's stream is dropped when handle_client returns or unwinds, so
\* ServerClosed is both.)
ClientGone == s_client \in {"absent", "done", "panicked"}

\* how a call that returned r leaves its caller: on, with an error
\* returned by ?, or panicking
After(r, next) ==
    IF r.tag = "Ok" THEN next ELSE IF r.tag = "Panic" THEN "panicked" ELSE "failed"
\* the same behind .unwrap()
AfterUnwrap(r, next) == IF r.tag = "Ok" THEN next ELSE "panicked"

\* client: write_message(m, ..).unwrap() up to the write_all of the length
\* field
ClientSend(at, m, T, writing) ==
    /\ s_client = at
    /\ \E w0 \in {client_write_message(s_impl, m, s_checks)} :
       \E w \in OnSocket(w0, ServerClosed) :
           /\ s_c2s' = BCat(s_c2s, LengthWritten(w))
           /\ s_cout' = PayloadPending(w)
           /\ s_client' = AfterUnwrap(w.res, writing)
           /\ s_log' = IF w.res.tag = "Ok" THEN s_log
                       ELSE Append(s_log, WriteFailed("client", w, T))
    /\ UNCHANGED <<s_impl, s_checks, s_peer, s_vals, s_server, s_s2c, s_res,
                   s_cin, s_sout, s_sin, not_svars>>

\* client: stream.write_message(client_hello).unwrap(), the length field
ClientSendHello ==
    /\ s_client = "start"
    /\ \E m \in {s_vals.hello} : ClientSend("start", m, "ClientHello", "write_client_hello")

\* client: the write_all of the encoded message, one write call: the call
\* goes on writing, returns, or fails and unwrap panics
ClientWritePayload ==
    /\ s_client \in {"write_client_hello", "write_client_ready"}
    /\ \E T \in {IF s_client = "write_client_hello" THEN "ClientHello" ELSE "ClientReady"} :
       \E o \in SocketWrites(ServerClosed) :
       IF o.tag # "Ok"
       THEN /\ s_cout' = <<>>
            /\ s_client' = "panicked"
            /\ s_log' = Append(s_log, WriteFailed("client", [res |-> o], T))
            /\ UNCHANGED s_c2s
       ELSE \E k \in WriteCalls(s_cout) :
            /\ s_c2s' = BCat(s_c2s, BTake(s_cout, k))
            /\ s_cout' = BDrop(s_cout, k)
            /\ IF k < BLen(s_cout) THEN UNCHANGED <<s_client, s_log>>
               ELSE /\ s_client' = IF T = "ClientHello" THEN "await_server_hello"
                                   ELSE "done"
                    /\ s_log' = Append(s_log, SendEvent("client", T))
    /\ UNCHANGED <<s_impl, s_checks, s_peer, s_vals, s_server, s_s2c, s_res,
                   s_cin, s_sout, s_sin, not_svars>>

\* client: stream.read_message::<ServerHello>().unwrap(), one read on the
\* socket: the call goes on waiting, or returns
ClientRecvHello ==
    /\ s_client = "await_server_hello"
    /\ s_s2c # <<>> \/ ServerClosed
    /\ \E got \in {BCat(s_cin.taken, TakeFrom(s_s2c, s_cin.taken))} :
           /\ s_s2c' = BDrop(s_s2c, BLen(got) - BLen(s_cin.taken))
           /\ IF s_s2c # <<>> /\ NeedsMore(got)
              THEN /\ s_cin' = [taken |-> got, alloc |-> Allocated(got)]
                   /\ UNCHANGED <<s_client, s_log>>
              ELSE \E r0 \in {client_read_message(s_impl, "ServerHello", got, s_checks)} :
                   \E r \in AtEnd(r0, s_s2c = <<>> /\ ServerClosed) :
                       /\ s_cin' = NoRead
                       /\ s_client' = AfterUnwrap(r.res, "send_client_ready")
                       /\ s_log' = Append(s_log, ReadEvent("client", r, "ServerHello", got))
    /\ UNCHANGED <<s_impl, s_checks, s_peer, s_vals, s_server, s_c2s, s_res,
                   s_cout, s_sout, s_sin, not_svars>>

\* client: stream.write_message(client_ready).unwrap(), the length field
ClientSendReady ==
    /\ s_client = "send_client_ready"
    /\ \E m \in {ClientReady_new(s_vals.client_key)} :
           ClientSend("send_client_ready", m, "ClientReady", "write_client_ready")

\* a peer that is not the example client shuts down its sending half, and
\* still reads
WireShutdown ==
    /\ s_client = "wire"
    /\ s_client' = "half_closed"
    /\ UNCHANGED <<s_impl, s_checks, s_peer, s_vals, s_server, s_c2s, s_s2c, s_res,
                   s_log, s_cout, s_cin, s_sout, s_sin, not_svars>>

\* a peer that is not the example client closes its end
WireClose ==
    /\ s_client \in {"wire", "half_closed"}
    /\ s_client' = "absent"
    /\ UNCHANGED <<s_impl, s_checks, s_peer, s_vals, s_server, s_c2s, s_s2c, s_res,
                   s_log, s_cout, s_cin, s_sout, s_sin, not_svars>>

\* the server's end of the connection closes while handle_client runs: the
\* server's process is stopped
ServerStop ==
    /\ s_peer = "client"
    /\ s_server \in {"await_client_hello", "send_server_hello", "write_server_hello",
                     "await_client_ready"}
    /\ s_server' = "stopped"
    /\ UNCHANGED <<s_impl, s_checks, s_peer, s_vals, s_client, s_c2s, s_s2c, s_res,
                   s_log, s_cout, s_cin, s_sout, s_sin, not_svars>>

\* server: let _: T = stream.read_message()?; one read on the socket: the
\* call goes on waiting with what it has taken, or returns
ServerRecv(at, T, next) ==
    /\ s_server = at
    /\ s_c2s # <<>> \/ ClientClosed
    /\ \E got \in {BCat(s_sin.taken, TakeFrom(s_c2s, s_sin.taken))} :
           /\ s_c2s' = BDrop(s_c2s, BLen(got) - BLen(s_sin.taken))
           /\ IF s_c2s # <<>> /\ NeedsMore(got)
              THEN /\ s_sin' = [taken |-> got, alloc |-> Allocated(got)]
                   /\ UNCHANGED <<s_server, s_res, s_log>>
              ELSE \E r0 \in {read_as(s_impl, T, got, s_checks)} :
                   \E r \in AtEnd(r0, s_c2s = <<>> /\ ClientGone) :
                       /\ s_sin' = NoRead
                       /\ s_server' = After(r.res, next)
                       /\ s_res' = IF r.res.tag = "Ok" THEN s_res ELSE r.res
                       /\ s_log' = Append(s_log, ReadEvent("server", r, T, got))
    /\ UNCHANGED <<s_impl, s_checks, s_peer, s_vals, s_client, s_s2c,
                   s_cout, s_cin, s_sout, not_svars>>

\* server: the read of ClientHello, the first thing handle_client does
ServerRecvHello ==
    /\ s_server = "await_client_hello"
    /\ ServerRecv("await_client_hello", "ClientHello", "send_server_hello")

\* server: stream.write_message(server_hello)?, the length field
ServerSendHello ==
    /\ s_server = "send_server_hello"
    /\ \E m \in {ServerHello_new(s_vals.server_key, s_vals.signature,
                                   Checksum_HmacSha256(16))} :
       \E w0 \in {write_as(s_impl, m, s_checks)} :
       \E w \in OnSocket(w0, ClientGone) :
           /\ s_s2c' = BCat(s_s2c, LengthWritten(w))
           /\ s_sout' = PayloadPending(w)
           /\ s_server' = After(w.res, "write_server_hello")
           /\ s_res' = IF w.res.tag = "Ok" THEN s_res ELSE w.res
           /\ s_log' = IF w.res.tag = "Ok" THEN s_log
                       ELSE Append(s_log, WriteFailed("server", w, "ServerHello"))
    /\ UNCHANGED <<s_impl, s_checks, s_peer, s_vals, s_client, s_c2s,
                   s_cout, s_cin, s_sin, not_svars>>

\* server: the write_all of the encoded ServerHello, one write call: the
\* call goes on writing, returns, or fails and ? returns the error
ServerWritePayload ==
    /\ s_server = "write_server_hello"
    /\ \E o \in SocketWrites(ClientGone) :
       IF o.tag # "Ok"
       THEN /\ s_sout' = <<>>
            /\ s_server' = "failed"
            /\ s_res' = o
            /\ s_log' = Append(s_log, WriteFailed("server", [res |-> o], "ServerHello"))
            /\ UNCHANGED s_s2c
       ELSE \E k \in WriteCalls(s_sout) :
            /\ s_s2c' = BCat(s_s2c, BTake(s_sout, k))
            /\ s_sout' = BDrop(s_sout, k)
            /\ IF k < BLen(s_sout) THEN UNCHANGED <<s_server, s_log>>
               ELSE /\ s_server' = "await_client_ready"
                    /\ s_log' = Append(s_log, SendEvent("server", "ServerHello"))
            /\ UNCHANGED s_res
    /\ UNCHANGED <<s_impl, s_checks, s_peer, s_vals, s_client, s_c2s,
                   s_cout, s_cin, s_sin, not_svars>>

\* server: the read of ClientReady, and Ok(()) after it
ServerRecvReady ==
    /\ s_server = "await_client_ready"
    /\ ServerRecv("await_client_ready", "ClientReady", "complete")

\* the example client against handle_client, each peer running when it can
ClientNext == ClientSendHello \/ ClientWritePayload \/ ClientRecvHello \/ ClientSendReady
ServerNext == ServerRecvHello \/ ServerSendHello \/ ServerWritePayload \/ ServerRecvReady

SNext ==
    \/ ClientSendHello \/ ClientWritePayload \/ ClientRecvHello \/ ClientSendReady
    \/ WireShutdown \/ WireClose \/ ServerStop
    \/ ServerRecvHello \/ ServerSendHello \/ ServerWritePayload \/ ServerRecvReady

SpecHandshake == SInit /\ [][SNext]_vars

DuplexInit == SInit /\ s_peer = "client"
FairHandshake ==
    DuplexInit /\ [][ClientNext \/ ServerNext]_vars
               /\ WF_vars(ClientNext) /\ WF_vars(ServerNext)

(***************************************************************************)
(* A stream at work for several messages: a writer calls write_message for *)
(* each message of a sequence, a reader at the other end calls             *)
(* read_message again and again, each call taking bytes as they arrive.    *)
(***************************************************************************)
StreamImpls == {"ContextedStream", "Message"}
MaxMessages == 3

\* messages whose encodings are short, the largest a frame can announce
\* (32765 bytes), one byte more, and more than 32767 bytes
StreamMessages ==
    { Known("ClientHello", <<42, 7>>), Known("ClientReady", <<Run(1, 255)>>),
      Known("ClientReady", <<Run(32762, 255)>>), Known("ClientReady", <<Run(32763, 255)>>),
      Known("ClientReady", <<Run(32766, 255)>>) }
StreamUnion(impl) == IF impl = "Message" THEN "Message" ELSE "Login"

TInit ==
    /\ t_impl \in StreamImpls
    /\ t_checks \in BOOLEAN
    /\ t_todo \in UNION { [1..n -> StreamMessages] : n \in 0..MaxMessages }
    /\ t_sent = <<>>
    /\ t_stream = <<>>
    /\ t_got = <<>>
    /\ t_last = None
    /\ t_writer = "running"
    /\ t_reader = "running"
    /\ t_out = <<>>
    /\ t_in = NoRead
    /\ MIdle /\ CIdle /\ FIdle /\ HIdle /\ KIdle /\ PIdle /\ SIdle /\ QIdle

\* stream.write_message(m) for the next message, up to the write_all of the
\* length field; a call that returned an error wrote nothing
TWrite ==
    /\ t_writer = "running" /\ t_todo # <<>>
    /\ \E w \in {write_with(t_impl, StreamUnion(t_impl), Head(t_todo), t_checks)} :
           /\ t_stream' = BCat(t_stream, LengthWritten(w))
           /\ t_out' = PayloadPending(w)
           /\ t_writer' = IF w.res.tag = "Ok" THEN "writing"
                          ELSE IF w.res.tag = "Panic" THEN "panicked" ELSE "running"
           /\ t_todo' = IF w.res.tag = "Ok" THEN t_todo ELSE Tail(t_todo)
    /\ UNCHANGED <<t_impl, t_checks, t_sent, t_got, t_last, t_reader, t_in, not_tvars>>

\* the write_all of the encoded message, one write call: the call goes on
\* writing, or returns
TWritePayload ==
    /\ t_writer = "writing"
    /\ \E k \in WriteCalls(t_out) :
           /\ t_stream' = BCat(t_stream, BTake(t_out, k))
           /\ t_out' = BDrop(t_out, k)
           /\ IF k < BLen(t_out) THEN UNCHANGED <<t_sent, t_todo, t_writer>>
              ELSE /\ t_sent' = Append(t_sent, Head(t_todo))
                   /\ t_todo' = Tail(t_todo)
                   /\ t_writer' = "running"
    /\ UNCHANGED <<t_impl, t_checks, t_got, t_last, t_reader, t_in, not_tvars>>

\* stream.read_message::<C>(), one read on the socket: the call goes on
\* waiting with what it has taken, or returns: what it returned and the bytes
\* it took
TRead ==
    /\ t_reader = "running" /\ t_stream # <<>>
    /\ \E got \in {BCat(t_in.taken, TakeFrom(t_stream, t_in.taken))} :
           /\ t_stream' = BDrop(t_stream, BLen(got) - BLen(t_in.taken))
           /\ IF NeedsMore(got)
              THEN /\ t_in' = [taken |-> got, alloc |-> Allocated(got)]
                   /\ UNCHANGED <<t_got, t_last, t_reader>>
              ELSE \E r \in {read_with(t_impl, StreamUnion(t_impl), "Self", got,
                                       t_checks)} :
                       /\ t_in' = NoRead
                       /\ t_got' = IF r.res.tag = "Ok" THEN Append(t_got, r.res.val)
                                   ELSE t_got
                       /\ t_last' = [tag |-> r.res.tag, consumed |-> BLen(got)]
                       /\ t_reader' = IF r.res.tag = "Ok" THEN "running" ELSE "failed"
    /\ UNCHANGED <<t_impl, t_checks, t_todo, t_sent, t_writer, t_out, not_tvars>>

TNext == TWrite \/ TWritePayload \/ TRead

SpecStream == TInit /\ [][TNext]_vars

(***************************************************************************)
(* Packet<P> (src/packet.rs, src/traits.rs): the opcode byte of the        *)
(* payload type P, then the payload as P encodes it.                       *)
(***************************************************************************)
\* the payload types: Unknown (payload/unknown.rs), ClientReady
\* (payloads/client_ready.rs)
PacketTypes == {"Unknown", "ClientReady"}
ClientReady_OPCODE == 2
Payload_OPCODE(P) == IF P = "Unknown" THEN Unknown_OPCODE ELSE ClientReady_OPCODE

\* P::encode_payload / Payload::encode, P::decode_payload / Payload::decode
Payload_encode(P, self) == IF P = "Unknown" THEN Ok(self) ELSE SecretReady_encode(self)
Payload_decode(P, data) == IF P = "Unknown" THEN Ok(data) ELSE SecretReady_decode(data)

\* Packet::<P>::encode: what it returned and what it wrote
Packet_encode(P, self) ==
    CHOOSE out \in
        { Written(r, encode_packet(Payload_OPCODE(P), IF r.tag = "Ok" THEN r.val ELSE <<>>),
                  FALSE) : r \in { Payload_encode(P, self) } } : TRUE

\* Packet::<P>::decode: what it returned, and whether P's decoder was called
Packet_decode(P, data) ==
    CHOOSE out \in
        { IF rest.tag # "Ok" THEN [res |-> rest, invoked |-> FALSE]
          ELSE [res |-> Payload_decode(P, rest.val), invoked |-> TRUE] :
          rest \in { decode_packet(Payload_OPCODE(P), data) } } : TRUE

PacketValues(P) ==
    IF P = "Unknown" THEN {<<>>, Run(1, 7), Bytes(<<128, 1>>), Run(300, 0)}
    ELSE {SecretReady(sk) : sk \in SecretKeys}
PacketOpcodeBytes == {0, 1, 2, 127, 128, 129, 130, 255}
PacketRests ==
    {<<>>, Run(1, 7), Bytes(<<128, 2>>), SecretReady_encode(SecretReady(1)).val}
PacketInputs == {<<>>} \cup {BCat(Run(1, b), rest) : b \in PacketOpcodeBytes,
                                                    rest \in PacketRests}

QInit ==
    /\ q_pc = "start"
    /\ q_P \in PacketTypes
    /\ q_value \in PacketValues(q_P)
    /\ q_data \in PacketInputs
    /\ q_enc = None
    /\ q_dec = None
    /\ MIdle /\ CIdle /\ FIdle /\ HIdle /\ KIdle /\ PIdle /\ SIdle /\ TIdle

\* packet.encode(&mut buf, &ctx)
QEncode ==
    /\ q_pc = "start" /\ q_enc = None
    /\ q_enc' = Packet_encode(q_P, q_value)
    /\ UNCHANGED <<q_pc, q_P, q_value, q_data, q_dec, not_qvars>>

\* <P as Packet<P>>::decode(&data[..], &ctx)
QDecode ==
    /\ q_pc = "start" /\ q_dec = None
    /\ q_dec' = Packet_decode(q_P, q_data)
    /\ UNCHANGED <<q_pc, q_P, q_value, q_data, q_enc, not_qvars>>

QNext == QEncode \/ QDecode

SpecPacket == QInit /\ [][QNext]_vars

(***************************************************************************)
(* Claims about the derived Message implementation (SpecMessage).          *)
(***************************************************************************)
IsBlob(i) == Fields(m_struct)[i].kind = "prefixed"
BlobIndexes == {i \in 1..Len(Fields(m_struct)) : IsBlob(i)}
BlobsWithinCeiling == \A i \in BlobIndexes : BLen(m_value[i]) <= MAX_PREFIXED_SIZE

\* the encoded size of field i of the value: the integer's width, or the
\* prefix's width plus the blob's length
EncodedSize(i) ==
    IF IsBlob(i) THEN Fields(m_struct)[i].ty.w + BLen(m_value[i])
    ELSE Fields(m_struct)[i].ty.w
RECURSIVE EncodedEnd(_)
EncodedEnd(i) == IF i = 0 THEN 0 ELSE EncodedEnd(i - 1) + EncodedSize(i)

TruncationMsgs == {"Insufficient data", "Insufficient data for size",
                   "failed to fill whole buffer"}

\* C1 as stated: whenever serialize succeeded (every blob length fits its
\* prefix type), deserialize of the bytes succeeds and returns the value,
\* field for field.
C1_AsStated ==
    m_pc = "roundtrip" => m_de.tag = "Ok" /\ m_de.val = m_value

\* C5 as stated: deserialize of a proper prefix of serialize's bytes returns a
\* truncation error.
C5_AsStated ==
    m_pc = "truncated" => m_de.tag = "Err" /\ m_de.msg \in TruncationMsgs

\* C5 amended: when no blob of the value is longer than MAX_PREFIXED_SIZE,
\* deserialize of a proper prefix of serialize's bytes returns a truncation
\* error, raised by the first field whose encoding the prefix cuts.
C5_Truncation ==
    m_pc = "truncated" /\ BlobsWithinCeiling =>
        /\ m_de.tag = "Err"
        /\ m_de.msg \in TruncationMsgs
        /\ \E i \in 1..Len(Fields(m_struct)) :
              /\ m_de.field = Fields(m_struct)[i].name
              /\ EncodedEnd(i - 1) <= BLen(m_in)
              /\ BLen(m_in) < EncodedEnd(i)

C5_Witness ==
    /\ m_pc = "truncated" /\ m_struct = "SimpleMessage" /\ BLen(m_in) = 3
    /\ m_de.tag = "Err"

DeclaresFirstBlob == m_pc = "crafted" /\ BlobIndexes = {1}
FirstPrefix == Fields(m_struct)[1].ty
\* the bytes the integer fields after the blob take
RECURSIVE WidthFrom(_)
WidthFrom(i) ==
    IF i > Len(Fields(m_struct)) THEN 0
    ELSE Fields(m_struct)[i].ty.w + WidthFrom(i + 1)

\* C6: a declared length of exactly MAX_PREFIXED_SIZE passes the size check
\* and deserialize succeeds when the blob and the later fields follow; a
\* declared length above it fails with the size error, the cursor just past
\* the prefix and no blob buffer allocated.
C6_Ceiling ==
    DeclaresFirstBlob =>
        /\ m_craft.len = MAX_PREFIXED_SIZE =>
              /\ m_de.tag = "Err" => m_de.msg \in TruncationMsgs
              /\ m_craft.follow >= MAX_PREFIXED_SIZE + WidthFrom(2) =>
                    /\ m_de.tag = "Ok"
                    /\ m_de.val[1] = Run(MAX_PREFIXED_SIZE, 171)
                    /\ m_de.alloc = MAX_PREFIXED_SIZE
        /\ m_craft.len > MAX_PREFIXED_SIZE =>
              /\ m_de.tag = "Err"
              /\ m_de.msg = "size exceeds maximum allowed"
              /\ m_de.alloc = 0
              /\ m_de.pos = FirstPrefix.w

C6_Witness ==
    /\ DeclaresFirstBlob /\ m_craft.len = MAX_PREFIXED_SIZE
    /\ m_struct = "i32" /\ m_de.tag = "Ok"

\* C7 as stated: a negative declared length is rejected with an error other
\* than the one used for lengths above the ceiling.
C7_AsStated ==
    DeclaresFirstBlob /\ m_craft.len < 0 =>
        m_de.tag = "Err" /\ m_de.msg # "size exceeds maximum allowed"

\* C7 amended: a negative declared length of a signed prefix is rejected, with
\* the same error as a length above the ceiling, the cursor just past the
\* prefix and no blob buffer allocated: it is never used as a byte count.
C7_NegativeLength ==
    DeclaresFirstBlob /\ m_craft.len < 0 =>
        /\ FirstPrefix.s
        /\ m_de.tag = "Err"
        /\ m_de.msg = "size exceeds maximum allowed"
        /\ m_de.alloc = 0
        /\ m_de.pos = FirstPrefix.w

C7_Witness ==
    /\ DeclaresFirstBlob /\ m_craft.len = -1 /\ m_struct = "ClientReady"
    /\ m_craft.follow = 2 /\ m_de.tag = "Err"

(***************************************************************************)
(* Claims about the codec unions and the other encoders (SpecCodec).       *)
(***************************************************************************)
RegisteredOpcodes == {LoginVariants[i].opcode : i \in 1..Len(LoginVariants)}
VariantOf(byte) ==
    LoginVariants[CHOOSE i \in 1..Len(LoginVariants) : LoginVariants[i].opcode = byte]
FirstByte == c_in[1][2]

\* the blobs of a known message
BlobsOf(m) ==
    IF m.variant = "Unknown" THEN {}
    ELSE {m.body[i] : i \in {j \in 1..Len(m.body) :
             VariantNamed(Union("Login"), m.variant).fields[j].kind = "prefixed"}}
FitsPrefixes(m) == \A b \in BlobsOf(m) : BLen(b) <= 32767

RoundTrips ==
    /\ c_pc = "encoded" => c_enc.tag = "Ok"
    /\ c_pc = "roundtrip" => c_dec = Ok(c_msg)

\* C2 as stated: for every message of a codec union, the catch-all with any
\* opcode byte included, encode succeeds and decode of the encoding returns
\* the message.
C2_AsStated == c_union \in Decoders /\ c_msg # None => RoundTrips

\* C2 amended: decode(encode(m)) succeeds and returns m for every known
\* variant whose blobs fit their i16 prefixes and for every Unknown whose
\* opcode byte no known variant registers.
C2_RoundTrip ==
    /\ c_union \in Decoders /\ c_msg # None
    /\ FitsPrefixes(c_msg)
    /\ c_msg.variant = "Unknown" => (c_msg.opcode % 256) \notin RegisteredOpcodes
    => RoundTrips

C2_Witness ==
    /\ c_pc = "roundtrip" /\ c_union = "LoginUnknownI8"
    /\ c_msg.variant = "Unknown" /\ c_msg.opcode = -128 /\ BLen(c_msg.data) = 2
    /\ c_dec = Ok(c_msg)

\* C8 as stated: every encoder of a prefixed field fails, and returns no
\* bytes, for a blob longer than its i16 prefix represents.
C8_AsStated ==
    c_pc = "encoded" /\ ~FitsPrefixes(c_msg) =>
        c_enc.tag = "Err" /\ c_enc.kind = "InvalidData"

\* C9: decoding bytes whose first byte no variant registers (0x7F among them)
\* is the "Unknown message opcode" error in Login, and in a union with a
\* catch-all the Unknown variant holding that byte as its opcode and all the
\* bytes after it as its data.
C9_UnknownOpcode ==
    c_pc = "wire" /\ c_in # <<>> /\ FirstByte \notin RegisteredOpcodes =>
        IF HasCatchAll(c_union)
        THEN /\ c_dec.tag = "Ok"
             /\ c_dec.val.variant = "Unknown"
             /\ c_dec.val.opcode % 256 = FirstByte
             /\ c_dec.val.opcode = (IF c_union = "LoginUnknownU8" \/ FirstByte < 128
                                    THEN FirstByte ELSE FirstByte - 256)
             /\ c_dec.val.data = BDrop(c_in, 1)
        ELSE c_dec = Err("InvalidData", "Unknown message opcode")

C9_Witness ==
    /\ c_pc = "wire" /\ c_union = "LoginUnknownU8" /\ BLen(c_in) = 4
    /\ FirstByte = 127
    /\ c_dec = Ok(Unknown(127, BDrop(c_in, 1)))

\* C10 as stated: in a union with a catch-all, decode of a registered opcode
\* returns that opcode's variant or the error of the body's deserialization,
\* and decode of any other opcode succeeds.
C10_AsStated ==
    c_pc = "wire" /\ HasCatchAll(c_union) /\ c_in # <<>> =>
        IF FirstByte \in RegisteredOpcodes
        THEN \/ c_dec.tag = "Ok" /\ c_dec.val.variant = VariantOf(FirstByte).name
             \/ /\ c_dec.tag = "Err"
                /\ c_union \in CodecUnions =>
                      c_dec = deserialize(VariantOf(FirstByte).fields, BDrop(c_in, 1))
        ELSE c_dec.tag = "Ok"

(***************************************************************************)
(* Claims about framing (SpecFrame).                                       *)
(***************************************************************************)
\* the encoded message the writer frames
FEncoded ==
    CASE f_impl = "ContextedStream" -> encode(Union(f_union), f_msg)
      [] f_impl = "Packet" -> Ok(encode_packet(Unknown_OPCODE, f_msg.payload))
      [] f_impl = "Message" -> Ok(Message_into(f_msg))

\* C3 as stated: every framing writer writes an encoded message of 32765
\* bytes behind the length field 32767, and fails with the "Message too
\* large" error, writing nothing, for an encoded message of 32766 bytes or
\* more.
C3_AsStated ==
    f_pc = "written" /\ FEncoded.tag = "Ok" =>
        /\ BLen(FEncoded.val) = 32765 =>
              f_res.tag = "Ok" /\ f_stream = Frame(32767, FEncoded.val)
        /\ BLen(FEncoded.val) >= 32766 =>
              f_res = Err("InvalidData", "Message too large") /\ f_stream = <<>>

\* C4 as stated: every framing reader fails with an invalid-length error on
\* a length field below 2, having taken the two length bytes from the stream
\* and allocated no payload buffer.
C4_AsStated ==
    f_pc = "read" /\ CanRead(f_stream, 0, 2) /\ LengthField(f_stream) < 2 =>
        /\ f_res.tag = "Err" /\ f_res.kind = "InvalidData"
        /\ f_alloc = <<>>
        /\ f_consumed = 2

(***************************************************************************)
(* Further claims about the codec unions (SpecCodec).                      *)
(***************************************************************************)
\* C11: decode of the empty byte sequence returns the "No opcode found in
\* message" error in every #[codec] union, with or without a catch-all: no
\* message and no panic.
C11_EmptyMessage ==
    c_pc = "wire" /\ c_in = <<>> /\ c_union \in CodecUnions =>
        c_dec = Err("InvalidData", "No opcode found in message")

C11_Witness ==
    /\ c_pc = "wire" /\ c_in = <<>> /\ c_union = "LoginUnknownI8"
    /\ c_dec.tag = "Err" /\ c_dec.msg = "No opcode found in message"

\* the opcode byte the protocol gives each handshake message
OpcodeByteOf(name) ==
    CASE name = "ClientHello" -> 0
      [] name = "ServerHello" -> 1
      [] name = "ClientReady" -> 2

\* C12: encode of a known variant is its opcode byte (0x00 ClientHello, 0x01
\* ServerHello, 0x02 ClientReady) followed by the serialize() output of the
\* body, and fails exactly when serialize fails; the opcodes of a union are
\* pairwise distinct; decode of bytes that start with one of these opcodes
\* yields, when it succeeds, the variant encode tags with that byte.
C12_OpcodeThenBody ==
    /\ \A i, j \in 1..Len(LoginVariants) :
          i # j => LoginVariants[i].opcode # LoginVariants[j].opcode
    /\ c_pc = "encoded" /\ c_union \in CodecUnions /\ c_msg.variant # "Unknown" =>
          LET body == serialize(Fields(c_msg.variant), c_msg.body)
          IN  IF body.tag = "Ok"
              THEN c_enc = Ok(BCat(Run(1, OpcodeByteOf(c_msg.variant)), body.val))
              ELSE c_enc = body
    /\ c_pc \in {"wire", "roundtrip"} /\ c_union \in CodecUnions /\ c_in # <<>>
       /\ c_dec.tag = "Ok" /\ c_dec.val.variant # "Unknown" =>
          FirstByte = OpcodeByteOf(c_dec.val.variant)

C12_Witness ==
    /\ c_pc = "roundtrip" /\ c_union = "Login" /\ c_msg.variant = "ServerHello"
    /\ BLen(c_msg.body[1]) = 2 /\ BLen(c_msg.body[2]) = 1
    /\ FirstByte = 1 /\ BLen(c_in) = 9 /\ c_dec = Ok(c_msg)

(***************************************************************************)
(* Further claims about the derived Message implementation (SpecMessage).  *)
(***************************************************************************)
\* byte k (0 the least significant) of the two's complement of v; the
\* integers of the model are within 32 bits, so bytes 4.. are the sign
LEByte(v, k) ==
    IF k <= 3 THEN (v \div (256 ^ k)) % 256
    ELSE IF v < 0 THEN 255 ELSE 0
LittleEndian(v, w) == Bytes([k \in 1..w |-> LEByte(v, k - 1)])

\* the encoding of field i of the value
FieldEncoding(i) ==
    IF IsBlob(i)
    THEN BCat(LittleEndian(BLen(m_value[i]), Fields(m_struct)[i].ty.w), m_value[i])
    ELSE LittleEndian(m_value[i], Fields(m_struct)[i].ty.w)
RECURSIVE FieldsEncoding(_)
FieldsEncoding(i) ==
    IF i = 0 THEN <<>> ELSE BCat(FieldsEncoding(i - 1), FieldEncoding(i))

\* C13: serialize of a value whose blob lengths fit their prefixes succeeds,
\* and its output is the concatenation, in declared order, of the fields'
\* encodings - an integer as its width's little-endian two's-complement bytes,
\* a blob as its length in the prefix's little-endian bytes and then its
\* bytes - so that the output is as long as the widths and blob lengths add up.
C13_Concatenation ==
    m_pc = "serialized"
    /\ (\A i \in BlobIndexes : try_into_len(BLen(m_value[i]), Fields(m_struct)[i].ty))
    => /\ m_ser = Ok(FieldsEncoding(Len(Fields(m_struct))))
       /\ BLen(m_ser.val) = EncodedEnd(Len(Fields(m_struct)))

C13_Witness ==
    /\ m_pc = "serialized" /\ m_struct = "MessageWithVec"
    /\ m_value[1] = -100 /\ BLen(m_value[2]) = 32767
    /\ m_ser.tag = "Ok" /\ BLen(m_ser.val) = 32773
    /\ Plain(BTake(m_ser.val, 6)) = <<156, 255, 255, 255, 255, 127>>

\* C14: for each message type T of the union and every m of type T,
\* T::try_from(m.into()) is Ok(m); T::try_from of a value holding another
\* variant is the error Err(()) and never a value of T.
C14_WrapUnwrap ==
    c_pc = "converted" =>
        IF c_msg.variant = c_target
        THEN c_conv = Ok(Struct(c_target, c_msg.body))
        ELSE c_conv = ErrUnit

C14_Witness ==
    /\ c_pc = "converted" /\ c_union = "Login"
    /\ c_msg.variant = "ClientReady" /\ c_target = "ClientReady"
    /\ BLen(c_msg.body[1]) = 2
    /\ c_conv.tag = "Ok" /\ c_conv.val.fields = c_msg.body

(***************************************************************************)
(* Further claims about framing (SpecFrame).                               *)
(***************************************************************************)
\* C15 as stated: a successful framing write has written the two bytes of
\* L = length(encoded) + 2 and then the encoded bytes, nothing else, and has
\* flushed the stream; the frame has L >= 2 and L - 2 payload bytes.
C15_AsStated ==
    f_pc = "written" /\ f_res.tag = "Ok" =>
        /\ FEncoded.tag = "Ok"
        /\ LengthField(f_stream) = BLen(FEncoded.val) + 2
        /\ BDrop(f_stream, 2) = FEncoded.val
        /\ LengthField(f_stream) >= 2
        /\ BLen(f_stream) = LengthField(f_stream)
        /\ f_flushed

\* the stream ends before the length field or before the payload it declares
StreamEndsEarly ==
    \/ ~CanRead(f_stream, 0, 2)
    \/ LengthField(f_stream) >= 2 /\ ~CanRead(f_stream, 0, LengthField(f_stream))

\* C16 as stated: a read_message that fails returns the I/O error of a short
\* read, UnexpectedEof "failed to fill whole buffer", exactly when the stream
\* ended early; no failure of decoding a fully read frame has that error value.
C16_AsStated ==
    /\ f_pc \in {"read", "readback"} /\ f_impl \in {"ContextedStream", "Message"}
    /\ f_res.tag = "Err"
    => (StreamEndsEarly <=> f_res.kind = Eof.kind /\ f_res.msg = Eof.msg)

(***************************************************************************)
(* Claims about ClientHello (SpecHello).                                   *)
(***************************************************************************)
\* the time is a number of milliseconds since the epoch that an i64 holds
\* and that is not negative
WithinI64 == ~h_time.before /\ ~is_negative64(h_time.millis)
\* the time is a number of milliseconds an i64 holds, negative ones included
SignedI64 == WithinI64 \/ (h_time.before /\ (~is_negative64(h_time.millis)
                                             \/ h_time.millis = MIN64))

YieldsBack ==
    /\ h_pc = "built" => h_hello.tag = "Ok"
    /\ h_pc = "encoded" => h_bytes.tag = "Ok"
    /\ h_pc \in {"recovered", "recovered_back"} =>
          h_out.integrity = h_integrity /\ h_out.timestamp = Ok(h_time)
    /\ h_pc = "decoded" => h_back = Ok(PayloadHello(h_integrity, h_time))

\* C17 as stated: for all 64-bit integrity, timestamp_millis, primary and
\* secondary a ClientHello is built and yields back integrity and
\* timestamp_millis, also after being serialized and deserialized.
C17_AsStated == SignedI64 => YieldsBack

\* C17 amended: for all 64-bit integrity, primary and secondary and every
\* time of 0 to i64::MAX milliseconds since the epoch the ClientHello is
\* built and yields back the integrity and the time, also after being
\* serialized and deserialized; for any other time ClientHello::new fails,
\* and encoding the payload of a time before the epoch panics.
C17_Recovers ==
    /\ WithinI64 => YieldsBack
    /\ h_pc = "built" /\ ~WithinI64 => h_hello.tag = "Err"
    /\ h_pc = "encoded" /\ h_time.before => h_bytes.tag = "Panic"

C17_Witness ==
    /\ h_pc = "recovered_back" /\ h_integrity = MIN64 /\ h_time.millis = MAX64
    /\ h_primary = DEFAULT_PRIMARY /\ h_secondary = DEFAULT_SECONDARY
    /\ h_out.integrity = MIN64 /\ h_out.timestamp.tag = "Ok"

\* C18: a serialized ClientHello is 16 bytes, the little-endian i64
\* integrity XOR primary and then the little-endian i64 timestamp_millis XOR
\* integrity XOR secondary; with the default primary and integrity 12345 the
\* first 8 bytes are those of 12345 XOR 3214621489648854472.
C18_SixteenBytes ==
    h_pc \in {"serialized", "encoded"} /\ h_bytes.tag = "Ok" =>
        /\ BLen(h_bytes.val) = 16
        /\ from_le_bytes64(Plain(BTake(h_bytes.val, 8))) = xor64(h_integrity, h_primary)
        /\ from_le_bytes64(Plain(BDrop(h_bytes.val, 8)))
              = xor64(xor64(h_time.millis, h_integrity), h_secondary)
        /\ h_integrity = <<12345, 0, 0, 0>> /\ h_primary = DEFAULT_PRIMARY =>
              Plain(BTake(h_bytes.val, 8)) = <<241, 85, 219, 137, 54, 161, 156, 44>>

C18_Witness ==
    /\ h_pc = "serialized" /\ h_impl = "message"
    /\ h_integrity = <<12345, 0, 0, 0>> /\ h_primary = DEFAULT_PRIMARY
    /\ h_secondary = DEFAULT_SECONDARY /\ h_time.millis = <<19712, 25964, 417, 0>>
    /\ BLen(h_bytes.val) = 16

(***************************************************************************)
(* Claims about the checksum selector (SpecChecksum).                      *)
(***************************************************************************)
\* C19: Checksum::try_from(s) is None for 0, Crc16 for 1, HmacSha256(s) for
\* s in 4..=32 and the invalid-checksum error for every other signed byte;
\* converting an accepted Checksum back to i8 returns s.
C19_Selector ==
    /\ k_pc \in {"converted", "back"} =>
          /\ k_size = 0 => k_checksum = Ok([checksum |-> "None"])
          /\ k_size = 1 => k_checksum = Ok([checksum |-> "Crc16"])
          /\ k_size >= 4 /\ k_size <= 32 =>
                k_checksum = Ok([checksum |-> "HmacSha256", size |-> k_size])
          /\ k_size < 0 \/ k_size = 2 \/ k_size = 3 \/ k_size > 32 =>
                k_checksum = Err("str", "Invalid checksum size")
    /\ k_pc = "back" => k_back = Ok(k_size)

C19_Witness == k_pc = "back" /\ k_size = 32 /\ k_back = Ok(32)

(***************************************************************************)
(* Claims about the Payload conversions of ServerHello (SpecCodec).        *)
(***************************************************************************)
\* C20 as stated: the body of a ServerHello is pk_len:i16 || pk ||
\* sig_len:i16 || sig || checksum_size:i8, and for every ServerHello whose
\* key and signature are at most 32767 bytes ServerHello::try_from of the
\* Payload from try_into returns the same key, signature and checksum_size.
C20_AsStated ==
    (/\ c_union = "Payload" /\ c_msg # None /\ c_pc \in {"encoded", "payload_back"}
     /\ c_msg.variant = "ServerHello" /\ FitsPrefixes(c_msg)) =>
        /\ c_enc = Ok([opcode |-> 1,
                       data |-> BCat(BCat(BCat(Bytes(to_le_bytes(BLen(c_msg.body[1]), 2)),
                                               c_msg.body[1]),
                                          BCat(Bytes(to_le_bytes(BLen(c_msg.body[2]), 2)),
                                               c_msg.body[2])),
                                     Run(1, c_msg.body[3] % 256))])
        /\ c_pc = "payload_back" => c_dec = Ok(Struct("ServerHello", c_msg.body))

(***************************************************************************)
(* Claims about the payload types (SpecPayload).                           *)
(***************************************************************************)
\* the public key a ClientReady value holds, as its uncompressed point
KeyBytesOf(impl, v) ==
    CASE impl = "payloads" -> to_encoded_point(CurvePointOf[v.secret_key])
      [] impl = "message" -> v.fields[1]
      [] OTHER -> to_encoded_point(v.public_key)

\* the body of a ClientReady is pk_len: i16 and the key, nothing more
ReadyBody ==
    p_type = "ClientReady" /\ p_pc # "start" =>
        /\ p_ser.tag = "Ok"
        /\ BodyOf(p_impl, p_ser.val)
              = BCat(Bytes(<<BLen(KeyBytesOf(p_impl, p_value)) % 256,
                             BLen(KeyBytesOf(p_impl, p_value)) \div 256>>),
                     KeyBytesOf(p_impl, p_value))

ReadyDecodes ==
    p_type = "ClientReady" /\ p_pc = "deserialized" =>
        /\ p_de.tag = "Ok"
        /\ KeyBytesOf(p_impl, p_de.val) = KeyBytesOf(p_impl, p_value)

\* C21 as stated: the ClientReady body is pk_len:i16 || pk_bytes, and in
\* every ClientReady implementation decoding the encoding of a ClientReady
\* that holds a valid key succeeds and yields the same key.
C21_AsStated == ReadyBody /\ ReadyDecodes

\* C22 as stated: for every payload! type and every value, with the default
\* context, serialize succeeds, deserialize of the bytes succeeds and
\* serializing the deserialized value gives the same bytes.
C22_AsStated ==
    p_impl = "payload" =>
        /\ p_pc = "serialized" => p_ser.tag = "Ok"
        /\ p_pc = "deserialized" => p_de.tag = "Ok"
        /\ p_pc = "reserialized" => p_reser = p_ser

(***************************************************************************)
(* Claims about the handshake (SpecHandshake, FairHandshake).              *)
(***************************************************************************)
Before(i, who, op, what) ==
    \E j \in 1..(i - 1) : s_log[j].who = who /\ s_log[j].op = op /\ s_log[j].what = what
Is(i, who, op, what) ==
    s_log[i].who = who /\ s_log[i].op = op /\ s_log[i].what = what

\* C23: the server sends ServerHello only after it received a ClientHello
\* and accepts ClientReady only after it sent ServerHello; the client sends
\* ClientReady only after it received ServerHello; what a peer accepts is the
\* message of that step, and a ClientHello is accepted only as the first
\* thing the server does.
C23_Order ==
    \A i \in DOMAIN s_log :
        /\ Is(i, "server", "send", "ServerHello") => Before(i, "server", "recv", "ClientHello")
        /\ Is(i, "server", "recv", "ClientReady") => Before(i, "server", "send", "ServerHello")
        /\ Is(i, "client", "send", "ClientReady") => Before(i, "client", "recv", "ServerHello")
        /\ Is(i, "client", "recv", "ServerHello") => Before(i, "client", "send", "ClientHello")
        /\ s_log[i].op = "recv" => s_log[i].opcode = OpcodeOf(s_log[i].what)
        /\ s_log[i].who = "server" /\ s_log[i].op = "recv" /\ s_log[i].opcode = 0 =>
              \A j \in 1..(i - 1) : s_log[j].who # "server"

\* a second ClientHello arrived where ClientReady was awaited, and was refused
C23_Witness ==
    /\ s_peer = "wire" /\ s_server = "failed" /\ Len(s_log) = 3
    /\ Is(1, "server", "recv", "ClientHello") /\ Is(2, "server", "send", "ServerHello")
    /\ Is(3, "server", "fail", "ClientReady") /\ s_log[3].opcode = 0 /\ s_log[3].whole

\* C25 as stated: when the frame the server reads while awaiting ClientHello
\* or ClientReady fails to decode or holds another message type,
\* handle_client returns an error at once: no ServerHello is sent, the
\* handshake is never complete and the server does nothing further.
C25_AsStated ==
    \A i \in DOMAIN s_log :
        (s_log[i].who = "server" /\ s_log[i].op \in {"fail", "panic"} /\ s_log[i].whole) =>
            /\ s_log[i].op = "fail"
            /\ s_server = "failed" /\ s_res.tag = "Err"
            /\ \A j \in (i + 1)..Len(s_log) : s_log[j].who # "server"
            /\ s_log[i].what = "ClientHello" => s_s2c = <<>>

\* a peer waits in a read: its stream is empty and the other end is open
Blocked(pc, stream, closed) ==
    pc \in {"await_client_hello", "await_client_ready", "await_server_hello"}
    /\ stream = <<>> /\ ~closed
BothBlocked ==
    Blocked(s_client, s_s2c, ServerClosed) /\ Blocked(s_server, s_c2s, ClientClosed)
Finished == s_client = "done" /\ s_server = "complete"
ThreeFrames ==
    /\ Len(s_log) = 6 /\ s_c2s = <<>> /\ s_s2c = <<>>
    /\ [i \in 1..6 |-> <<s_log[i].who, s_log[i].op, s_log[i].what>>]
          = << <<"client", "send", "ClientHello">>, <<"server", "recv", "ClientHello">>,
               <<"server", "send", "ServerHello">>, <<"client", "recv", "ServerHello">>,
               <<"client", "send", "ClientReady">>, <<"server", "recv", "ClientReady">> >>

\* C26: the example client and handle_client, each running when it can,
\* both finish the handshake, after exactly the three frames ClientHello,
\* ServerHello, ClientReady; they are never both waiting to read.
C26_Completes ==
    /\ [](s_peer = "client" => ~BothBlocked)
    /\ [](s_peer = "client" /\ Finished => ThreeFrames)
    /\ (s_peer = "client") ~> Finished

C26_Witness == s_peer = "client" /\ Finished /\ ThreeFrames /\ s_impl = "Message"

(***************************************************************************)
(* Claims about a stream of several messages (SpecStream).                 *)
(***************************************************************************)
\* the encoded message a frame of the stream carries
StreamEncoded(m) ==
    IF t_impl = "Message" THEN Message_into(m) ELSE encode(Union("Login"), m).val

\* C24 as stated: the messages written with write_message are returned by
\* successive read_message calls, in the order written: no read of a frame
\* that was written fails, and each successful read takes exactly the bytes
\* of one frame, the length field and the encoded message, from the stream.
C24_AsStated ==
    /\ t_reader = "running"
    /\ Len(t_got) <= Len(t_sent)
    /\ \A i \in 1..Len(t_got) : t_got[i] = t_sent[i]
    /\ t_last # None =>
          t_last.consumed = 2 + BLen(StreamEncoded(t_got[Len(t_got)]))
    /\ (t_todo = <<>> /\ t_writer = "running" /\ t_stream = <<>>) => t_got = t_sent

(***************************************************************************)
(* Claims about Packet<P> (SpecPacket).                                    *)
(***************************************************************************)
\* the first byte of a byte string, as an i8
FirstAsI8(data) == from_le_bytes(<<data[1][2]>>, TRUE)

\* C27: decoding a packet of the payload type P fails on an empty input and,
\* without calling P's decoder, on every input whose first byte taken as a
\* signed byte is not P::OPCODE; on an input that starts with P::OPCODE the
\* result is what P's decoder returns for the rest.  Encoding writes
\* P::OPCODE as the first byte.  For Unknown, whose opcode is -128, an input
\* is accepted iff its first byte is 0x80.
C27_OpcodeGate ==
    /\ q_dec # None =>
          /\ q_data = <<>> => q_dec.res.tag = "Err" /\ ~q_dec.invoked
          /\ (q_data # <<>> /\ FirstAsI8(q_data) # Payload_OPCODE(q_P)) =>
                q_dec.res.tag = "Err" /\ q_dec.res.kind = "InvalidData" /\ ~q_dec.invoked
          /\ (q_data # <<>> /\ FirstAsI8(q_data) = Payload_OPCODE(q_P)) =>
                q_dec.invoked /\ q_dec.res = Payload_decode(q_P, BDrop(q_data, 1))
          /\ q_P = "Unknown" =>
                (q_dec.res.tag = "Ok" <=> (q_data # <<>> /\ q_data[1][2] = 128))
    /\ q_enc # None =>
          /\ BLen(q_enc.out) >= 1
          /\ FirstAsI8(q_enc.out) = Payload_OPCODE(q_P)

\* an Unknown packet was written, and an input starting with 0x80 accepted
C27_Witness ==
    /\ q_P = "Unknown" /\ q_enc # None /\ q_dec # None
    /\ q_dec.res.tag = "Ok" /\ q_data[1][2] = 128 /\ BLen(q_data) > 1
    /\ q_enc.out[1] = <<1, 128>>

(***************************************************************************)
(* More claims about the framed stream (SpecFrame).                        *)
(***************************************************************************)
\* C28: when ContextedStream::write_message does not return Ok, because the
\* codec's encode failed or the encoded message is too large for the length
\* field, it has written nothing: the stream, empty before the call, is
\* empty after it.
C28_NothingWritten ==
    (f_impl = "ContextedStream" /\ f_pc = "written" /\ f_res.tag # "Ok") =>
        /\ f_stream = <<>>
        /\ f_res.tag = "Err" =>
              \/ f_res = encode(Union(f_union), f_msg)
              \/ f_res.msg = "Message too large"

\* an encoded message of more than 32767 bytes was refused
C28_Witness ==
    /\ f_impl = "ContextedStream" /\ f_pc = "written"
    /\ f_res.tag = "Err" /\ f_res.msg = "Message too large"
    /\ BLen(encode(Union(f_union), f_msg).val) > 32767

\* the stream a read was made on holds a whole frame: a length field L >= 2
\* and L - 2 bytes after it
HoldsFrame ==
    /\ CanRead(f_stream, 0, 2) /\ LengthField(f_stream) >= 2
    /\ CanRead(f_stream, 2, LengthField(f_stream) - 2)

\* C29: a read_message that found a length field L >= 2 and the L - 2 bytes
\* after it has taken exactly L bytes from the stream, whether it returned a
\* message or the decoding or the conversion to the requested type failed;
\* when fewer than L - 2 bytes follow the length field the read ends with
\* the error of read_exact: nothing was decoded.
C29_WholeFrame ==
    (f_impl \in {"ContextedStream", "Message"} /\ f_pc \in {"read", "readback"}) =>
        /\ HoldsFrame => f_consumed = LengthField(f_stream)
        /\ (CanRead(f_stream, 0, 2) /\ LengthField(f_stream) >= 2 /\ ~HoldsFrame) =>
              f_res = Eof /\ f_consumed = BLen(f_stream)

\* a frame whose payload does not decode, with bytes of the next frame
\* after it: the read failed and took the frame only
C29_Witness ==
    /\ f_impl = "ContextedStream" /\ f_pc = "read" /\ HoldsFrame
    /\ f_res.tag = "Err" /\ f_res # Eof
    /\ f_consumed = LengthField(f_stream) /\ BLen(f_stream) > f_consumed

(***************************************************************************)
(* Trailing bytes (SpecCodec).                                             *)
(***************************************************************************)
\* the decoding of the encoding with nothing after it
DecodedAlone == decode_in_place(c_union, c_enc.val, encoded_bytes(c_union, c_enc.val),
                                FALSE)

\* C30: bytes after the last declared field are ignored.  When the encoding
\* e of a known message decodes, e followed by any bytes s decodes to the same
\* value: through the derived deserialize behind the decode of a #[codec]
\* union, through Message::try_from and through ClientReady::try_from; the
\* decoded value encodes, and not to the bytes e ++ s it was decoded from.
C30_TrailingIgnored ==
    (c_pc = "trailing" /\ DecodedAlone.tag = "Ok") =>
        /\ c_dec = DecodedAlone
        /\ c_conv.tag = "Ok"
        /\ encoded_bytes(c_union, c_conv.val) # c_in

\* a ClientReady of the Login codec decoded from its encoding and 3 more bytes
C30_Witness ==
    /\ c_pc = "trailing" /\ c_union = "Login" /\ c_msg.variant = "ClientReady"
    /\ c_dec.tag = "Ok" /\ c_dec.val = c_msg
    /\ BLen(c_in) = BLen(c_enc.val) + 3
    /\ c_conv.tag = "Ok" /\ c_conv.val # c_in

====
